---- MODULE Spec2Model ----
(***************************************************************************)
(* Tracker protocol client of iroh-content-tracker (src/lib.rs): the       *)
(* message model with its postcard encoding, and the announce / query      *)
(* exchanges as state machines over a connection-oriented transport.       *)
(***************************************************************************)
EXTENDS Integers, Sequences, FiniteSets, TLC

(***************************************************************************)
(* Bounds of the model.                                                    *)
(***************************************************************************)
\* number of calls that may be in flight on the same endpoint
NumCalls == 2
\* a transport write accepts either all remaining bytes or this many
WriteChunk == 40
\* the tracker delivers a response in at most this many chunks
MaxChunks == 3

(***************************************************************************)
(* Program constants.                                                      *)
(***************************************************************************)
\* pub const TRACKER_ALPN: &[u8] = b"n0/tracker/1";
TRACKER_ALPN == "n0/tracker/1"
\* pub const REQUEST_SIZE_LIMIT: usize = 1024 * 16;
REQUEST_SIZE_LIMIT == 1024 * 16
\* iroh_bytes::Hash is a [u8; 32]
HashLen == 32
\* iroh_net::NodeId is a 32 byte ed25519 public key
NodeIdLen == 32

(***************************************************************************)
(* Bytes and the values of the message model.                              *)
(***************************************************************************)
(* A byte string is kept as the sequence of its runs: <<b, n>> stands for n   *)
(* bytes b in a row.  No run is empty and two runs in a row differ in their *)
(* byte, so that two byte strings are equal exactly when their values are.  *)
Byte == 0..255

Run(b, n) == <<b, n>>

\* n bytes b
Fill(b, n) == IF n = 0 THEN <<>> ELSE <<Run(b, n)>>

\* the runs of s followed by the runs of t, the last of s and the first of t
\* made one run when they are of the same byte
Join(s, t) ==
    IF s = <<>> THEN t
    ELSE IF t = <<>> THEN s
    ELSE IF s[Len(s)][1] = t[1][1]
         THEN SubSeq(s, 1, Len(s) - 1)
                  \o <<Run(t[1][1], s[Len(s)][2] + t[1][2])>>
                  \o Tail(t)
         ELSE s \o t

\* s followed by t (x and y are the values of s and t, computed once)
Cat(s, t) == CHOOSE r \in {Join(x, y) : x \in {s}, y \in {t}} : TRUE

RECURSIVE Concat(_)
\* the byte strings of a sequence, one after the other
Concat(parts) ==
    IF parts = <<>> THEN <<>> ELSE Cat(Head(parts), Concat(Tail(parts)))

RECURSIVE Bytes(_)
\* the byte string of a sequence of bytes: one byte, or the byte strings of the
\* two halves one after the other (x is the value of seq, computed once)
Bytes(seq) ==
    CHOOSE r \in {IF x = <<>> THEN <<>>
                  ELSE IF Len(x) = 1 THEN Fill(x[1], 1)
                  ELSE Cat(Bytes(SubSeq(x, 1, Len(x) \div 2)),
                           Bytes(SubSeq(x, (Len(x) \div 2) + 1, Len(x))))
                  : x \in {seq}} : TRUE

RECURSIVE Size(_)
\* the number of bytes of s
Size(s) == IF s = <<>> THEN 0 ELSE s[1][2] + Size(Tail(s))

\* the first byte of a byte string that has one
First(s) == s[1][1]

\* s without its first byte
Rest(s) == IF s[1][2] = 1 THEN Tail(s) ELSE <<Run(s[1][1], s[1][2] - 1)>> \o Tail(s)

RECURSIVE Take(_, _)
\* the first n bytes of s, or all of them
Take(s, n) ==
    IF n <= 0 \/ s = <<>> THEN <<>>
    ELSE IF s[1][2] >= n THEN <<Run(s[1][1], n)>>
    ELSE <<s[1]>> \o Take(Tail(s), n - s[1][2])

RECURSIVE Drop(_, _)
\* s without its first n bytes
Drop(s, n) ==
    IF n <= 0 \/ s = <<>> THEN s
    ELSE IF s[1][2] > n THEN <<Run(s[1][1], s[1][2] - n)>> \o Tail(s)
    ELSE Drop(Tail(s), n - s[1][2])

\* the n bytes of s after its first off bytes
Slice(s, off, n) == Take(Drop(s, off), n)

RECURSIVE Expand(_)
\* the bytes of a byte string, one by one
Expand(s) ==
    CHOOSE r \in {IF x = <<>> THEN <<>>
                  ELSE [i \in 1..x[1][2] |-> x[1][1]] \o Expand(Tail(x))
                  : x \in {s}} : TRUE

\* hashes and node ids are represented by their 32 bytes
HashA == Fill(170, HashLen)
HashB == Fill(187, HashLen)
H1 == Fill(1, NodeIdLen)
H2 == Fill(3, NodeIdLen)
T1 == Fill(9, NodeIdLen)
T2 == Fill(10, NodeIdLen)

H3 == Fill(170, NodeIdLen)

\* 32 bytes that are no point of the curve
NotAPoint == Fill(2, NodeIdLen)

\* the node ids of the calls, of the hosts and of the tickets
NodeIds == {H1, H2, H3, T1, T2}

Hashes == {HashA, HashB}

\* iroh_bytes::BlobFormat, in declaration order
BlobFormats == <<"Raw", "HashSeq">>

\* enum AnnounceKind { Partial, Complete }, in declaration order
AnnounceKinds == <<"Partial", "Complete">>

\* AnnounceKind::from_complete
from_complete(complete) == IF complete THEN "Complete" ELSE "Partial"

HashAndFormat(h, f) == [hash |-> h, format |-> f]

Announce(host, content, kind) == [host |-> host, content |-> content, kind |-> kind]

QueryFlags(complete, verified) == [complete |-> complete, verified |-> verified]

Query(content, flags) == [content |-> content, flags |-> flags]

QueryResponse(content, hosts) == [content |-> content, hosts |-> hosts]

\* enum Request { Announce(Announce), Query(Query) }, in declaration order
RequestVariants == <<"Announce", "Query">>

\* enum Response { QueryResponse(QueryResponse) }
ResponseVariants == <<"QueryResponse">>

Variant(tag, body) == [tag |-> tag, body |-> body]

IndexOf(seq, x) == CHOOSE i \in 1..Len(seq) : seq[i] = x

(***************************************************************************)
(* postcard: encoding.                                                     *)
(***************************************************************************)
RECURSIVE EncodeVarint(_)
\* LEB128, least significant group first
EncodeVarint(n) ==
    IF n < 128 THEN Fill(n, 1)
    ELSE Cat(Fill((n % 128) + 128, 1), EncodeVarint(n \div 128))

EncodeBool(b) == IF b THEN Fill(1, 1) ELSE Fill(0, 1)

\* a unit variant of an enum: its index as a varint
EncodeUnitVariant(variants, v) == EncodeVarint(IndexOf(variants, v) - 1)

\* struct HashAndFormat { hash, format }: fields in order, no framing
EncodeHashAndFormat(haf) ==
    Cat(haf.hash, EncodeUnitVariant(BlobFormats, haf.format))

RECURSIVE LexLess(_, _)
\* the order of byte arrays
LexLess(a, b) ==
    \E x \in {a}, y \in {b} :
        IF x = <<>> THEN y # <<>>
        ELSE IF y = <<>> THEN FALSE
        ELSE IF First(x) # First(y) THEN First(x) < First(y)
        ELSE LexLess(Rest(x), Rest(y))

\* derive(Ord) of HashAndFormat: hash, then format
HafLeq(x, y) ==
    \/ LexLess(x.hash, y.hash)
    \/ /\ x.hash = y.hash
       /\ IndexOf(BlobFormats, x.format) <= IndexOf(BlobFormats, y.format)

RECURSIVE SortedContent(_)
\* iteration order of a BTreeSet<HashAndFormat>
SortedContent(S) ==
    IF S = {} THEN <<>>
    ELSE LET m == CHOOSE x \in S : \A y \in S : HafLeq(x, y)
         IN  <<m>> \o SortedContent(S \ {m})

RECURSIVE EncodeEachContent(_)
EncodeEachContent(seq) ==
    IF seq = <<>> THEN <<>>
    ELSE Cat(EncodeHashAndFormat(Head(seq)), EncodeEachContent(Tail(seq)))

\* BTreeSet<HashAndFormat>: its size as a varint, then the elements in order
EncodeContentSet(S) ==
    Cat(EncodeVarint(Cardinality(S)), EncodeEachContent(SortedContent(S)))

EncodeNodeId(id) == id

RECURSIVE EncodeEachNodeId(_)
EncodeEachNodeId(seq) ==
    IF seq = <<>> THEN <<>>
    ELSE Cat(EncodeNodeId(Head(seq)), EncodeEachNodeId(Tail(seq)))

\* Vec<NodeId>: its length as a varint, then the elements in order
EncodeNodeIds(seq) == Cat(EncodeVarint(Len(seq)), EncodeEachNodeId(seq))

EncodeAnnounce(a) ==
    Concat(<< EncodeNodeId(a.host),
              EncodeContentSet(a.content),
              EncodeUnitVariant(AnnounceKinds, a.kind) >>)

EncodeQueryFlags(f) == Cat(EncodeBool(f.complete), EncodeBool(f.verified))

EncodeQuery(q) == Cat(EncodeHashAndFormat(q.content), EncodeQueryFlags(q.flags))

EncodeQueryResponse(r) ==
    Cat(EncodeHashAndFormat(r.content), EncodeNodeIds(r.hosts))

\* postcard::to_stdvec(&Request)
EncodeRequest(req) ==
    Cat(EncodeUnitVariant(RequestVariants, req.tag),
        IF req.tag = "Announce" THEN EncodeAnnounce(req.body)
        ELSE EncodeQuery(req.body))

\* postcard::to_stdvec(&Response)
EncodeResponse(resp) ==
    Cat(EncodeUnitVariant(ResponseVariants, resp.tag), EncodeQueryResponse(resp.body))

(***************************************************************************)
(* postcard: decoding.  A decoder takes the bytes left and gives either    *)
(* NoParse or the value with the bytes that follow it.                     *)
(***************************************************************************)
NoParse == [ok |-> FALSE]

Parsed(v, rest) == [ok |-> TRUE, val |-> v, rest |-> rest]

\* what a call or a function returned: nothing yet, Ok(value) or Err(error)
NoResult == [status |-> "none"]

Success(v) == [status |-> "ok", value |-> v]

Failure(e) == [status |-> "err", error |-> e]

RECURSIVE Pow2(_)
Pow2(n) == IF n = 0 THEN 1 ELSE 2 * Pow2(n - 1)

RECURSIVE TakeVarintFrom(_, _, _, _)
\* group i of a varint of at most maxBytes bytes, whose last byte is at most maxLast
\* (rest is the value of bytes, computed once)
TakeVarintFrom(bytes, i, maxBytes, maxLast) ==
    IF i >= maxBytes THEN NoParse
    ELSE CHOOSE r \in {
        IF rest = <<>> THEN NoParse
        ELSE LET b == First(rest)
                 carry == (b % 128) * Pow2(7 * i)
             IN  IF b < 128
                 THEN IF i = maxBytes - 1 /\ b > maxLast THEN NoParse
                      ELSE Parsed(carry, Rest(rest))
                 ELSE LET more == TakeVarintFrom(Rest(rest), i + 1, maxBytes, maxLast)
                      IN  IF more.ok THEN Parsed(carry + more.val, more.rest)
                          ELSE NoParse
        : rest \in {bytes}} : TRUE

\* try_take_varint_u32: at most 5 bytes, the fifth at most 0x0F
TakeVarintU32(bytes) == TakeVarintFrom(bytes, 0, 5, 15)

\* try_take_varint_usize on a 64 bit target: at most 10 bytes, the tenth at most 0x01
TakeVarintUsize(bytes) == TakeVarintFrom(bytes, 0, 10, 1)

\* a unit variant of an enum: a known index, or an error
DecodeUnitVariant(variants, bytes) ==
    LET d == TakeVarintU32(bytes)
    IN  IF ~d.ok THEN NoParse
        ELSE IF d.val >= Len(variants) THEN NoParse
        ELSE Parsed(variants[d.val + 1], d.rest)

\* [u8; n]: n bytes, no framing (rest is the value of bytes, computed once)
TakeBytes(bytes, n) ==
    CHOOSE r \in {IF Size(rest) < n THEN NoParse
                  ELSE Parsed(Take(rest, n), Drop(rest, n)) : rest \in {bytes}} : TRUE

DecodeHash(bytes) == TakeBytes(bytes, HashLen)

(***************************************************************************)
(* Node ids are ed25519 public keys: 32 bytes that decompress to a point   *)
(* of the curve -x^2 + y^2 = 1 + d x^2 y^2 over the integers modulo        *)
(* 2^255 - 19.  A field element is 17 limbs of 15 bits, the lowest first.  *)
(***************************************************************************)
LimbBits == 15

LimbCount == 17

LimbBase == Pow2(LimbBits)

\* the curve constant d = -121665/121666
EDWARDS_D ==
    << 30883, 9906, 14120, 12122, 2743, 10299, 4944, 14341, 6144,
       29649, 26077, 14851, 14540, 32718, 2779, 13943, 20995 >>

FieldZero == [k \in 1..LimbCount |-> 0] \o <<>>

FieldOne == [k \in 1..LimbCount |-> IF k = 1 THEN 1 ELSE 0] \o <<>>

RECURSIVE CarryFrom(_, _, _)
\* the limbs of e from limb k on, after the carry c that comes in, and last
\* the carry that leaves the highest limb
CarryFrom(e, k, c) ==
    IF k > LimbCount THEN << c >>
    ELSE CHOOSE r \in {<< t % LimbBase >> \o CarryFrom(e, k + 1, t \div LimbBase)
                       : t \in {e[k] + c}} : TRUE

\* one pass of carries from the lowest limb up; what leaves the highest limb is
\* worth 2^255 = 19 and goes to the lowest
FieldCarry(e) ==
    CHOOSE r \in {
        [k \in 1..LimbCount |-> IF k = 1 THEN t[1] + 19 * t[LimbCount + 1] ELSE t[k]] \o <<>>
        : t \in {CHOOSE q \in {CarryFrom(x, 1, 0) : x \in {e}} : TRUE}} : TRUE

\* the limbs i of a that meet a limb of b at weight k: i + j - 1 = k
Meeting(k) ==
    (IF k > LimbCount THEN k + 1 - LimbCount ELSE 1)..(IF k > LimbCount THEN LimbCount ELSE k)

\* the sum of f over from..to
Sum(f, from, to) ==
    LET S[i \in (from - 1)..to] == IF i < from THEN 0 ELSE S[i - 1] + f[i]
    IN  S[to]

\* the limbs of a product before the carries: the weights from 2^255 up are
\* folded with 2^255 = 19
FieldFold(d) ==
    FieldCarry(FieldCarry([k \in 1..LimbCount |-> d[k] + 19 * d[k + LimbCount]] \o <<>>))

\* a * b: the products of the limbs, each split at 15 bits, summed by weight
FieldMul(a, b) ==
    CHOOSE r \in {
        FieldFold(
            [k \in 1..(2 * LimbCount) |->
                Sum([i \in Meeting(k) |-> (x[i] * y[k + 1 - i]) % LimbBase],
                    IF k > LimbCount THEN k + 1 - LimbCount ELSE 1,
                    IF k > LimbCount THEN LimbCount ELSE k)
                + (IF k = 1 THEN 0
                   ELSE Sum([i \in Meeting(k - 1) |-> (x[i] * y[k - i]) \div LimbBase],
                            IF k - 1 > LimbCount THEN k - LimbCount ELSE 1,
                            IF k - 1 > LimbCount THEN LimbCount ELSE k - 1))] \o <<>>)
        : x \in {a}, y \in {b}} : TRUE

FieldSquare(a) == FieldMul(a, a)

FieldAdd(a, b) ==
    FieldCarry([k \in 1..LimbCount |-> a[k] + b[k]] \o <<>>)

\* a - b, with 2 * (2^255 - 19) added so that no limb goes below zero
FieldSub(a, b) ==
    FieldCarry([k \in 1..LimbCount |->
        a[k] + (IF k = 1 THEN 2 * (LimbBase - 19) ELSE 2 * (LimbBase - 1)) - b[k]] \o <<>>)

FieldNeg(a) == FieldSub(FieldZero, a)

\* the one representation of a below 2^255 - 19
FieldCanon(a) ==
    CHOOSE r \in {
        IF x[1] >= LimbBase - 19 /\ \A k \in 2..LimbCount : x[k] = LimbBase - 1
        THEN [k \in 1..LimbCount |-> IF k = 1 THEN x[1] - (LimbBase - 19) ELSE 0] \o <<>>
        ELSE x
        : x \in {FieldCarry(FieldCarry(a))}} : TRUE

FieldEq(a, b) == FieldCanon(a) = FieldCanon(b)

RECURSIVE FieldPow2k(_, _)
\* a^(2^k): k squarings
FieldPow2k(a, k) ==
    CHOOSE r \in {
        IF k = 0 THEN x
        ELSE IF k = 1 THEN FieldSquare(x)
        ELSE FieldPow2k(FieldPow2k(x, k \div 2), k - (k \div 2))
        : x \in {a}} : TRUE

RECURSIVE FieldPowOnes(_, _)
\* a^(2^n - 1)
FieldPowOnes(a, n) ==
    IF n = 1 THEN a
    ELSE IF n % 2 = 1 THEN FieldMul(FieldSquare(FieldPowOnes(a, n - 1)), a)
    ELSE CHOOSE r \in {FieldMul(FieldPow2k(x, n \div 2), x)
                       : x \in {FieldPowOnes(a, n \div 2)}} : TRUE

\* FieldElement::pow_p58: a^((p - 5) / 8) = a^(2^252 - 3)
FieldPowP58(a) == FieldMul(FieldPow2k(FieldPowOnes(a, 250), 2), a)

\* FieldElement::from_bytes: the low 255 bits of 32 bytes, lowest byte first
FieldFromBytes(bytes) ==
    CHOOSE r \in {
        LET bit(j) == (b[(j \div 8) + 1] \div Pow2(j % 8)) % 2
            V[k \in 1..LimbCount, t \in 0..LimbBits] ==
                IF t = 0 THEN 0
                ELSE V[k, t - 1] + bit(LimbBits * (k - 1) + t - 1) * Pow2(t - 1)
        IN  [k \in 1..LimbCount |-> V[k, LimbBits]] \o <<>>
        : b \in {Expand(bytes)}} : TRUE

\* FieldElement::sqrt_ratio_i(u, v), its flag: u / v is a square
FieldRatioIsSquare(u, v) ==
    CHOOSE r \in {
        \E v3 \in {FieldMul(FieldSquare(y), y)} :
        \E v7 \in {FieldMul(FieldSquare(v3), y)} :
        \E root \in {FieldMul(FieldMul(x, v3), FieldPowP58(FieldMul(x, v7)))} :
        \E check \in {FieldMul(y, FieldSquare(root))} :
            \/ FieldEq(check, x)
            \/ FieldEq(check, FieldNeg(x))
        : x \in {u}, y \in {v}} : TRUE

\* CompressedEdwardsY::decompress, its flag: y gives u = y^2 - 1 and
\* v = d y^2 + 1 with u / v a square
IsCurvePoint(bytes) ==
    \E yy \in {FieldSquare(FieldFromBytes(bytes))} :
        FieldRatioIsSquare(FieldSub(yy, FieldOne),
                           FieldAdd(FieldMul(yy, EDWARDS_D), FieldOne))

\* the 32 byte strings that stand for a node id in the values below, and the
\* points among them, computed once
KnownKeys == NodeIds \cup {NotAPoint}

KnownPoints == UNION {IF IsCurvePoint(k) THEN {k} ELSE {} : k \in KnownKeys}

\* PublicKey::try_from(&[u8; 32]): VerifyingKey::from_bytes succeeds
IsNodeId(k) == IF k \in KnownKeys THEN k \in KnownPoints ELSE IsCurvePoint(k)

\* NodeId: 32 bytes that are a point of the curve
DecodeNodeId(bytes) ==
    CHOOSE r \in {IF k.ok /\ IsNodeId(k.val) THEN k ELSE NoParse
                  : k \in {TakeBytes(bytes, NodeIdLen)}} : TRUE

DecodeHashAndFormat(bytes) ==
    CHOOSE r \in {
        IF ~h.ok THEN NoParse
        ELSE CHOOSE r2 \in {
            IF ~f.ok THEN NoParse ELSE Parsed(HashAndFormat(h.val, f.val), f.rest)
            : f \in {DecodeUnitVariant(BlobFormats, h.rest)}} : TRUE
        : h \in {DecodeHash(bytes)}} : TRUE

RECURSIVE DecodeEachNodeId(_, _, _)
\* n node ids one after the other, pushed in the order read (e is the element
\* decoded, computed once)
DecodeEachNodeId(bytes, n, acc) ==
    IF n = 0 THEN Parsed(acc, bytes)
    ELSE CHOOSE r \in {
        IF ~e.ok THEN NoParse
        ELSE DecodeEachNodeId(e.rest, n - 1, Append(acc, e.val))
        : e \in {DecodeNodeId(bytes)}} : TRUE

\* Vec<NodeId>: its length as a varint, then that many elements
DecodeNodeIds(bytes) ==
    CHOOSE r \in {
        IF ~n.ok THEN NoParse ELSE DecodeEachNodeId(n.rest, n.val, <<>>)
        : n \in {TakeVarintUsize(bytes)}} : TRUE

\* a decoder that keeps each host once
DecodeQueryResponseDedup(bytes) ==
    CHOOSE r \in {
        IF ~c.ok THEN NoParse
        ELSE CHOOSE r2 \in {
            IF ~hs.ok THEN NoParse
            ELSE Parsed(QueryResponse(c.val, SelectSeq(
                     [i \in 1..Len(hs.val) |->
                         IF \A j \in 1..(i - 1) : hs.val[j] # hs.val[i]
                         THEN hs.val[i] ELSE <<>>],
                     LAMBDA h : h # <<>>)), hs.rest)
            : hs \in {DecodeNodeIds(c.rest)}} : TRUE
        : c \in {DecodeHashAndFormat(bytes)}} : TRUE

DecodeQueryResponse(bytes) ==
    CHOOSE r \in {
        IF ~c.ok THEN NoParse
        ELSE CHOOSE r2 \in {
            IF ~hs.ok THEN NoParse ELSE Parsed(QueryResponse(c.val, hs.val), hs.rest)
            : hs \in {DecodeNodeIds(c.rest)}} : TRUE
        : c \in {DecodeHashAndFormat(bytes)}} : TRUE

\* postcard::from_bytes::<Response>: bytes after the value are ignored
DecodeResponse(bytes) ==
    CHOOSE r \in {
        IF ~t.ok THEN NoParse
        ELSE CHOOSE r2 \in {
            IF ~q.ok THEN NoParse ELSE Parsed(Variant(t.val, q.val), q.rest)
            : q \in {DecodeQueryResponse(t.rest)}} : TRUE
        : t \in {DecodeUnitVariant(ResponseVariants, bytes)}} : TRUE

\* bool: the byte 0 or the byte 1
DecodeBool(bytes) ==
    IF bytes = <<>> THEN NoParse
    ELSE IF First(bytes) = 0 THEN Parsed(FALSE, Rest(bytes))
    ELSE IF First(bytes) = 1 THEN Parsed(TRUE, Rest(bytes))
    ELSE NoParse

DecodeQueryFlags(bytes) ==
    CHOOSE r \in {
        IF ~c.ok THEN NoParse
        ELSE CHOOSE r2 \in {
            IF ~v.ok THEN NoParse ELSE Parsed(QueryFlags(c.val, v.val), v.rest)
            : v \in {DecodeBool(c.rest)}} : TRUE
        : c \in {DecodeBool(bytes)}} : TRUE

RECURSIVE DecodeEachContent(_, _, _)
\* n content addresses one after the other, each inserted into the set
DecodeEachContent(bytes, n, acc) ==
    IF n = 0 THEN Parsed(acc, bytes)
    ELSE CHOOSE r \in {
        IF ~e.ok THEN NoParse
        ELSE DecodeEachContent(e.rest, n - 1, acc \cup {e.val})
        : e \in {DecodeHashAndFormat(bytes)}} : TRUE

\* BTreeSet<HashAndFormat>: its size as a varint, then that many elements
DecodeContentSet(bytes) ==
    CHOOSE r \in {
        IF ~n.ok THEN NoParse ELSE DecodeEachContent(n.rest, n.val, {})
        : n \in {TakeVarintUsize(bytes)}} : TRUE

\* a decoder that takes every announce for a partial one
DecodeAnnouncePartial(bytes) ==
    CHOOSE r \in {
        IF ~h.ok THEN NoParse
        ELSE CHOOSE r2 \in {
            IF ~c.ok THEN NoParse
            ELSE CHOOSE r3 \in {
                IF ~k.ok THEN NoParse
                ELSE Parsed(Announce(h.val, c.val, from_complete(FALSE)), k.rest)
                : k \in {DecodeUnitVariant(AnnounceKinds, c.rest)}} : TRUE
            : c \in {DecodeContentSet(h.rest)}} : TRUE
        : h \in {DecodeNodeId(bytes)}} : TRUE

DecodeAnnounce(bytes) ==
    CHOOSE r \in {
        IF ~h.ok THEN NoParse
        ELSE CHOOSE r2 \in {
            IF ~c.ok THEN NoParse
            ELSE CHOOSE r3 \in {
                IF ~k.ok THEN NoParse
                ELSE Parsed(Announce(h.val, c.val, k.val), k.rest)
                : k \in {DecodeUnitVariant(AnnounceKinds, c.rest)}} : TRUE
            : c \in {DecodeContentSet(h.rest)}} : TRUE
        : h \in {DecodeNodeId(bytes)}} : TRUE

DecodeQuery(bytes) ==
    CHOOSE r \in {
        IF ~c.ok THEN NoParse
        ELSE CHOOSE r2 \in {
            IF ~f.ok THEN NoParse ELSE Parsed(Query(c.val, f.val), f.rest)
            : f \in {DecodeQueryFlags(c.rest)}} : TRUE
        : c \in {DecodeHashAndFormat(bytes)}} : TRUE

\* postcard::from_bytes::<Request>: bytes after the value are ignored
DecodeRequest(bytes) ==
    CHOOSE r \in {
        IF ~t.ok THEN NoParse
        ELSE CHOOSE r2 \in {
            IF ~q.ok THEN NoParse ELSE Parsed(Variant(t.val, q.val), q.rest)
            : q \in {IF t.val = "Announce" THEN DecodeAnnounce(t.rest)
                     ELSE DecodeQuery(t.rest)}} : TRUE
        : t \in {DecodeUnitVariant(RequestVariants, bytes)}} : TRUE

(***************************************************************************)
(* Inputs: the calls the program makes and the byte strings the tracker    *)
(* may answer with.                                                        *)
(***************************************************************************)
ContentA == HashAndFormat(HashA, "Raw")
ContentB == HashAndFormat(HashB, "HashSeq")

\* the longest hosts sequence of the responses that are encoded and decoded
MaxHosts == 2

ContentC == HashAndFormat(HashA, "HashSeq")

\* sequences of at most n node ids
HostSeqs(n) == UNION {[1..k -> {H1, H2}] : k \in 0..n}

\* the requests that are encoded and decoded
Requests ==
    {Variant("Announce", Announce(h, c, k)) :
        h \in {H1, H2}, c \in SUBSET {ContentA, ContentB, ContentC},
        k \in {from_complete(FALSE), from_complete(TRUE)}}
    \cup
    {Variant("Query", Query(c, QueryFlags(x, y))) :
        c \in {ContentA, ContentB, ContentC}, x \in BOOLEAN, y \in BOOLEAN}

\* the responses that are encoded and decoded
ResponsesOut ==
    {Variant("QueryResponse", QueryResponse(c, hs)) :
        c \in {ContentA, ContentB, ContentC}, hs \in HostSeqs(MaxHosts)}

Call(op, tracker, request) == [op |-> op, tracker |-> tracker, request |-> request]

NoCall == [op |-> "none"]

\* no connection, no stream
NoHandle == <<>>

SampleQueryResponses ==
    << QueryResponse(ContentA, <<H1, H2>>),
       QueryResponse(ContentB, <<H2, H1, H2>>),
       QueryResponse(ContentA, <<H3>>) >>

ValidResponse(i) == EncodeResponse(Variant("QueryResponse", SampleQueryResponses[i]))

PadTo(bytes, n) == Cat(bytes, Fill(0, n - Size(bytes)))

\* what the tracker may send on a stream
Responses ==
    << ValidResponse(1),
       <<>>,
       ValidResponse(2),
       Cat(Bytes(<<1>>), Rest(ValidResponse(1))),
       Take(ValidResponse(1), Size(ValidResponse(1)) - 1),
       PadTo(ValidResponse(1), REQUEST_SIZE_LIMIT),
       PadTo(ValidResponse(1), REQUEST_SIZE_LIMIT + 1),
       ValidResponse(3),
       EncodeResponse(Variant("QueryResponse", QueryResponse(ContentA, <<H1, NotAPoint>>))) >>

\* what one call alone is checked on
Calls1 ==
    { Call("announce", T1, Announce(H1, {}, from_complete(FALSE))),
      Call("announce", T2, Announce(H2, {ContentA, ContentB}, from_complete(TRUE))),
      Call("query", T1, Query(ContentA, QueryFlags(TRUE, FALSE))),
      Call("query", T2, Query(ContentB, QueryFlags(FALSE, TRUE))) }

Inputs1 == [calls |-> Calls1, replies |-> 1..Len(Responses), chunks |-> MaxChunks]

\* what concurrent calls are checked on
CallsN ==
    { Call("announce", T1, Announce(H1, {ContentA}, from_complete(TRUE))),
      Call("query", T1, Query(ContentA, QueryFlags(TRUE, FALSE))) }

InputsN == [calls |-> CallsN, replies |-> 1..2, chunks |-> 1]

CallIds == 1..NumCalls

(***************************************************************************)
(* Text: a string is the sequence of its characters.  Hex and base32, as   *)
(* the hex and data_encoding crates read and write them.  A value that is  *)
(* used more than once is bound to a name once:                            *)
(* CHOOSE r \in {e : x \in {v}} : TRUE is e with x the value of v.         *)
(***************************************************************************)
\* the string of n characters ch
Rep(ch, n) == [i \in 1..n |-> ch]

LowerLetters ==
    << "a", "b", "c", "d", "e", "f", "g", "h", "i", "j", "k", "l", "m",
       "n", "o", "p", "q", "r", "s", "t", "u", "v", "w", "x", "y", "z" >>

UpperLetters ==
    << "A", "B", "C", "D", "E", "F", "G", "H", "I", "J", "K", "L", "M",
       "N", "O", "P", "Q", "R", "S", "T", "U", "V", "W", "X", "Y", "Z" >>

Digits == << "0", "1", "2", "3", "4", "5", "6", "7", "8", "9" >>

\* the place of x in seq, or 0
Place(seq, x) ==
    IF \E i \in 1..Len(seq) : seq[i] = x
    THEN CHOOSE i \in 1..Len(seq) : seq[i] = x
    ELSE 0

\* u8::to_ascii_lowercase, u8::to_ascii_uppercase
ToLower(ch) == IF Place(UpperLetters, ch) > 0 THEN LowerLetters[Place(UpperLetters, ch)] ELSE ch

ToUpper(ch) == IF Place(LowerLetters, ch) > 0 THEN UpperLetters[Place(LowerLetters, ch)] ELSE ch

\* str::to_ascii_lowercase, str::to_ascii_uppercase
ToLowerAll(text) ==
    CHOOSE r \in {[i \in 1..Len(t) |-> ToLower(t[i])] \o <<>> : t \in {text}} : TRUE

ToUpperAll(text) ==
    CHOOSE r \in {[i \in 1..Len(t) |-> ToUpper(t[i])] \o <<>> : t \in {text}} : TRUE

\* the value of a hex digit of either case, or -1
HexValue(ch) ==
    IF Place(Digits, ch) > 0 THEN Place(Digits, ch) - 1
    ELSE IF Place(LowerLetters, ToLower(ch)) \in 1..6
         THEN 9 + Place(LowerLetters, ToLower(ch))
         ELSE -1

HexDigit(v) == IF v < 10 THEN Digits[v + 1] ELSE LowerLetters[v - 9]

\* hex::encode: two lower case digits a byte
HexEncode(bytes) ==
    CHOOSE r \in {
        [i \in 1..(2 * Len(b)) |->
            IF i % 2 = 1 THEN HexDigit(b[(i + 1) \div 2] \div 16)
            ELSE HexDigit(b[i \div 2] % 16)] \o <<>>
        : b \in {Expand(bytes)}} : TRUE

\* hex::decode_to_slice into n bytes: the text is 2n hex digits, or an error
HexDecode(text, n) ==
    CHOOSE r \in {
        IF Len(t) # 2 * n THEN NoParse
        ELSE IF \E i \in 1..Len(t) : HexValue(t[i]) < 0 THEN NoParse
        ELSE Parsed(Bytes([i \in 1..n |->
                        16 * HexValue(t[2 * i - 1]) + HexValue(t[2 * i])] \o <<>>), <<>>)
        : t \in {text}} : TRUE

\* the value of a symbol of BASE32 (RFC 4648, upper case), or -1
Base32Value(ch) ==
    IF Place(UpperLetters, ch) > 0 THEN Place(UpperLetters, ch) - 1
    ELSE IF Place(Digits, ch) \in 3..8 THEN 23 + Place(Digits, ch)
    ELSE -1

Base32Symbol(v) == IF v < 26 THEN UpperLetters[v + 1] ELSE Digits[v - 23]

\* bit i (from 0, the highest first) of a sequence of values of width bits each
BitOf(vals, width, i) ==
    (vals[(i \div width) + 1] \div Pow2(width - 1 - (i % width))) % 2

\* the value of the width bits from bit i on; bits past the end are 0
BitsOf(vals, width, from, i, n) ==
    LET bit(k) == IF k < from * Len(vals) THEN BitOf(vals, from, k) ELSE 0
        F[j \in 0..n] == IF j = 0 THEN 0 ELSE 2 * F[j - 1] + bit(i + j - 1)
    IN  F[n]

\* BASE32_NOPAD.encode: 5 bits a symbol, the last one filled with zero bits
Base32Encode(bytes) ==
    CHOOSE r \in {
        [i \in 1..((8 * Len(b) + 4) \div 5) |->
            Base32Symbol(BitsOf(b, 8, 8, 5 * (i - 1), 5))] \o <<>>
        : b \in {Expand(bytes)}} : TRUE

\* BASE32_NOPAD.decode: upper case symbols only, a length that 5 bits a symbol
\* can give, and zero bits after the last byte
Base32Decode(text) ==
    CHOOSE r \in {
        LET n == (5 * Len(vals)) \div 8
        IN  IF Len(vals) % 8 \in {1, 3, 6} THEN NoParse
            ELSE IF \E i \in 1..Len(vals) : vals[i] < 0 THEN NoParse
            ELSE IF BitsOf(vals, 5, 5, 8 * n, 5 * Len(vals) - 8 * n) # 0 THEN NoParse
            ELSE Parsed(Bytes([i \in 1..n |-> BitsOf(vals, 5, 5, 8 * (i - 1), 8)] \o <<>>),
                        <<>>)
        : vals \in {[i \in 1..Len(t) |-> Base32Value(t[i])] \o <<>> : t \in {text}}} : TRUE

(***************************************************************************)
(* Content arguments of the command line (args.rs): the three forms of a   *)
(* content argument, as iroh_bytes and iroh_net read them from a string.   *)
(***************************************************************************)
\* Hash::from_str: 64 hex digits, or 52 symbols of base32 in either case
HashFromStr(text) ==
    CHOOSE r \in {
        IF hex.ok THEN hex
        ELSE IF Len(text) # 52 THEN NoParse
        ELSE Base32Decode(ToUpperAll(text))
        : hex \in {IF Len(text) = 64 THEN HexDecode(text, HashLen) ELSE NoParse}} : TRUE

\* HashAndFormat::from_str: 64 hex digits for a raw blob, the letter s of either
\* case and 64 hex digits for a hash sequence
HashAndFormatFromStr(text) ==
    IF Len(text) = 64
    THEN CHOOSE r \in {
             IF h.ok THEN Parsed(HashAndFormat(h.val, "Raw"), <<>>) ELSE NoParse
             : h \in {HexDecode(text, HashLen)}} : TRUE
    ELSE IF Len(text) = 65 /\ ToLower(text[1]) = "s"
    THEN CHOOSE r \in {
             IF h.ok THEN Parsed(HashAndFormat(h.val, "HashSeq"), <<>>) ELSE NoParse
             : h \in {HexDecode(Tail(text), HashLen)}} : TRUE
    ELSE NoParse

\* SocketAddr, NodeAddr { node_id, info: AddrInfo { derp_url, direct_addresses } }
\* and BlobTicket { node, format, hash }
SocketAddr(family, ip, port) == [family |-> family, ip |-> ip, port |-> port]

NodeAddr(node_id, derp_url, direct_addresses) ==
    [node_id |-> node_id,
     info |-> [derp_url |-> derp_url, direct_addresses |-> direct_addresses]]

BlobTicket(node, format, hash) == [node |-> node, format |-> format, hash |-> hash]

None == [some |-> FALSE]

Some(v) == [some |-> TRUE, value |-> v]

AddrFamilies == <<"V4", "V6">>

IpLen(family) == IF family = "V4" THEN 4 ELSE 16

\* SocketAddr: the family as a variant, the octets of the address, the port
EncodeSocketAddr(a) ==
    Concat(<< EncodeUnitVariant(AddrFamilies, a.family), a.ip, EncodeVarint(a.port) >>)

\* derive(Ord) of SocketAddr: family, then address, then port
SocketAddrLeq(a, b) ==
    LET fa == IndexOf(AddrFamilies, a.family)
        fb == IndexOf(AddrFamilies, b.family)
    IN  \/ fa < fb
        \/ fa = fb /\ LexLess(a.ip, b.ip)
        \/ fa = fb /\ a.ip = b.ip /\ a.port <= b.port

RECURSIVE EncodeEachSocketAddr(_)
EncodeEachSocketAddr(S) ==
    IF S = {} THEN <<>>
    ELSE LET m == CHOOSE x \in S : \A y \in S : SocketAddrLeq(x, y)
         IN  Cat(EncodeSocketAddr(m), EncodeEachSocketAddr(S \ {m}))

\* Option<Url>: 0, or 1 and the text of the url (Url::as_str) with its length
EncodeDerpUrl(u) ==
    IF ~u.some THEN Fill(0, 1)
    ELSE Concat(<< Fill(1, 1), EncodeVarint(Size(u.value)), u.value >>)

EncodeNodeAddr(n) ==
    Concat(<< EncodeNodeId(n.node_id),
              EncodeDerpUrl(n.info.derp_url),
              EncodeVarint(Cardinality(n.info.direct_addresses)),
              EncodeEachSocketAddr(n.info.direct_addresses) >>)

\* Ticket::to_bytes: TicketWireFormat::Variant0(ticket)
EncodeBlobTicket(t) ==
    Concat(<< Fill(0, 1),
              EncodeNodeAddr(t.node),
              EncodeUnitVariant(BlobFormats, t.format),
              t.hash >>)

\* Ticket::serialize: the kind, then the bytes in base32, all in lower case
BlobTicketToString(t) ==
    ToLowerAll(<<"b", "l", "o", "b">> \o Base32Encode(EncodeBlobTicket(t)))

\* try_take_varint_u16: at most 3 bytes, the third at most 0x03
TakeVarintU16(bytes) == TakeVarintFrom(bytes, 0, 3, 3)

DecodeSocketAddr(bytes) ==
    CHOOSE r \in {
        IF ~f.ok THEN NoParse
        ELSE CHOOSE r2 \in {
            IF ~ip.ok THEN NoParse
            ELSE CHOOSE r3 \in {
                IF ~port.ok THEN NoParse
                ELSE Parsed(SocketAddr(f.val, ip.val, port.val), port.rest)
                : port \in {TakeVarintU16(ip.rest)}} : TRUE
            : ip \in {TakeBytes(f.rest, IpLen(f.val))}} : TRUE
        : f \in {DecodeUnitVariant(AddrFamilies, bytes)}} : TRUE

RECURSIVE DecodeEachSocketAddr(_, _, _)
\* n socket addresses one after the other, inserted into a set
DecodeEachSocketAddr(bytes, n, acc) ==
    IF n = 0 THEN Parsed(acc, bytes)
    ELSE CHOOSE r \in {
        IF ~e.ok THEN NoParse
        ELSE DecodeEachSocketAddr(e.rest, n - 1, acc \cup {e.val})
        : e \in {DecodeSocketAddr(bytes)}} : TRUE

(***************************************************************************)
(* Url::parse of the url crate, without a base url, on a text given as its *)
(* bytes.  The result is the text of the url as the crate serialises it.   *)
(* Read here: the urls of the schemes http, https, ws, wss, ftp and file   *)
(* and of every scheme that is not special, with user information, a host  *)
(* that is a domain of ASCII characters, an IPv4 or an IPv6 address, a     *)
(* port, a path, a query and a fragment.  A domain with a character        *)
(* outside ASCII is refused, as the crate does when it is built without    *)
(* the tables of IDNA; a label in punycode is decoded, and kept as it is   *)
(* written when it decodes to a label with a character outside ASCII.     *)
(***************************************************************************)
Printable ==
    << " ", "!", "\"", "#", "$", "%", "&", "'", "(", ")", "*", "+", ",", "-", ".", "/" >>
    \o Digits \o << ":", ";", "<", "=", ">", "?", "@" >>
    \o UpperLetters \o << "[", "\\", "]", "^", "_", "grave accent" >>
    \o LowerLetters \o << "{", "|", "}", "~" >>

\* the code of a character of ASCII, of each character of a set, of a text
Ord(ch) == 31 + IndexOf(Printable, ch)

Ords(chs) == {Ord(chs[i]) : i \in 1..Len(chs)}

Codes(chs) == [i \in 1..Len(chs) |-> Ord(chs[i])] \o <<>>

Ch ==
    [slash |-> Ord("/"), backslash |-> Ord("\\"), colon |-> Ord(":"),
     question |-> Ord("?"), hash |-> Ord("#"), at |-> Ord("@"), dot |-> Ord("."),
     percent |-> Ord("%"), open |-> Ord("["), close |-> Ord("]"), zero |-> Ord("0")]

AsciiAlpha == Ords(LowerLetters) \cup Ords(UpperLetters)

AsciiDigit == Ords(Digits)

AsciiHexDigit ==
    AsciiDigit \cup Ords(<< "a", "b", "c", "d", "e", "f", "A", "B", "C", "D", "E", "F" >>)

\* the sets of percent_encoding and of parser.rs
CONTROLS == (0..31) \cup {127}

\* (96 is the grave accent)
FRAGMENT == CONTROLS \cup Ords(<< " ", "\"", "<", ">" >>) \cup {96}

PATH == FRAGMENT \cup Ords(<< "#", "?", "{", "}" >>)

USERINFO == PATH \cup Ords(<< "/", ":", ";", "=", "@", "[", "\\", "]", "^", "|" >>)

QUERY == CONTROLS \cup Ords(<< " ", "\"", "#", "<", ">" >>)

SPECIAL_QUERY == QUERY \cup Ords(<< "'" >>)

\* the value of a hex digit given by its code, and the digit of a value
HexValueOf(c) ==
    IF c \in AsciiDigit THEN c - Ch.zero
    ELSE IF c >= Ord("a") THEN c - Ord("a") + 10 ELSE c - Ord("A") + 10

UpperHexDigit(v) == IF v < 10 THEN Ch.zero + v ELSE Ord("A") + v - 10

LowerHexDigit(v) == IF v < 10 THEN Ch.zero + v ELSE Ord("a") + v - 10

\* the length of the longest prefix of text made of characters of set
Span(text, set) ==
    CHOOSE k \in 0..Len(text) :
        /\ \A j \in 1..k : text[j] \in set
        /\ k = Len(text) \/ text[k + 1] \notin set

\* the places of text that hold a character of set, in order
PlacesOf(text, set) ==
    SelectSeq([i \in 1..Len(text) |-> i] \o <<>>, LAMBDA i : text[i] \in set)

\* str::split: the parts of text between the separators
Split(text, sep) ==
    CHOOSE r \in {
        [k \in 1..(Len(p) + 1) |->
            SubSeq(text, (IF k = 1 THEN 0 ELSE p[k - 1]) + 1,
                         (IF k > Len(p) THEN Len(text) + 1 ELSE p[k]) - 1)] \o <<>>
        : p \in {PlacesOf(text, {sep})}} : TRUE

\* the sequences of a sequence of sequences, one after the other
RECURSIVE Flatten(_)
Flatten(seqs) ==
    CHOOSE r \in {
        IF s = <<>> THEN <<>>
        ELSE IF Len(s) = 1 THEN s[1]
        ELSE Flatten(SubSeq(s, 1, Len(s) \div 2))
             \o Flatten(SubSeq(s, (Len(s) \div 2) + 1, Len(s)))
        : s \in {seqs}} : TRUE

\* str::from_utf8 succeeds: every byte that does not continue a character
\* begins one, and is followed by as many continuations as it asks for
IsUtf8(b) ==
    LET n == Len(b)
        Cont(i) == i <= n /\ b[i] \in 128..191
        Width(c) == IF c < 128 THEN 1
                    ELSE IF c \in 194..223 THEN 2
                    ELSE IF c \in 224..239 THEN 3
                    ELSE IF c \in 240..244 THEN 4
                    ELSE 0
        Second(c) == IF c = 224 THEN 160..191
                     ELSE IF c = 237 THEN 128..159
                     ELSE IF c = 240 THEN 144..191
                     ELSE IF c = 244 THEN 128..143
                     ELSE 128..191
    IN  /\ n > 0 => ~Cont(1)
        /\ \A i \in 1..n :
            ~Cont(i) =>
                /\ Width(b[i]) > 0
                /\ \A j \in (i + 1)..(i + Width(b[i]) - 1) : Cont(j)
                /\ Width(b[i]) > 1 => b[i + 1] \in Second(b[i])
                /\ ~Cont(i + Width(b[i]))

\* Input::new: the text without the control characters and spaces at its ends,
\* read without its tabs and line ends
url_input(text) ==
    CHOOSE r \in {
        IF p = <<>> THEN <<>>
        ELSE SelectSeq(SubSeq(text, p[1], p[Len(p)]), LAMBDA c : c \notin {9, 10, 13})
        : p \in {PlacesOf(text, (0..255) \ (0..32))}} : TRUE

\* Input::next skips the tabs and line ends: the characters that follow one,
\* each as the count of the characters from it to the end of the input
input_breaks(text) ==
    CHOOSE r \in {
        IF p = <<>> THEN {}
        ELSE CHOOSE r2 \in {
            { Cardinality({j \in i..Len(t) : t[j] \notin {9, 10, 13}})
              : i \in {i \in 2..Len(t) : t[i] \notin {9, 10, 13} /\ t[i - 1] \in {9, 10, 13}} }
            : t \in {SubSeq(text, p[1], p[Len(p)])}} : TRUE
        : p \in {PlacesOf(text, (0..255) \ (0..32))}} : TRUE

\* percent_encode: a byte of the set, or outside ASCII, becomes % and two digits
percent_encode(text, set) ==
    Flatten([i \in 1..Len(text) |->
        IF text[i] >= 128 \/ text[i] \in set
        THEN << Ch.percent, UpperHexDigit(text[i] \div 16), UpperHexDigit(text[i] % 16) >>
        ELSE << text[i] >>] \o <<>>)

\* percent_decode: % and two hex digits become a byte
percent_decode(text) ==
    CHOOSE r \in {
        CHOOSE r2 \in {
            [k \in 1..Len(keep) |->
                IF keep[k] \in esc
                THEN 16 * HexValueOf(text[keep[k] + 1]) + HexValueOf(text[keep[k] + 2])
                ELSE text[keep[k]]] \o <<>>
            : keep \in {SelectSeq([i \in 1..Len(text) |-> i] \o <<>>,
                                  LAMBDA i : (i - 1) \notin esc /\ (i - 2) \notin esc)}} : TRUE
        : esc \in {{i \in 1..(Len(text) - 2) :
                       /\ text[i] = Ch.percent
                       /\ text[i + 1] \in AsciiHexDigit
                       /\ text[i + 2] \in AsciiHexDigit}}} : TRUE

\* a number below 65536 in decimal
Decimal(n) ==
    LET d == << n \div 10000, (n \div 1000) % 10, (n \div 100) % 10, (n \div 10) % 10, n % 10 >>
        first == IF n = 0 THEN 5 ELSE CHOOSE i \in 1..5 : d[i] # 0 /\ \A j \in 1..(i - 1) : d[j] = 0
    IN  [i \in 1..(6 - first) |-> Ch.zero + d[first + i - 1]] \o <<>>

\* a number below 65536 in lower case hex
LowerHex(n) ==
    LET d == << n \div 4096, (n \div 256) % 16, (n \div 16) % 16, n % 16 >>
        first == IF n = 0 THEN 4 ELSE CHOOSE i \in 1..4 : d[i] # 0 /\ \A j \in 1..(i - 1) : d[j] = 0
    IN  [i \in 1..(5 - first) |-> LowerHexDigit(d[first + i - 1])] \o <<>>

RECURSIVE RadixValue(_, _)
\* the value of digits in a radix as << high, low >>, 16 bits each; a high
\* half of 65536 stands for every value of more than 32 bits
RadixValue(digits, radix) ==
    IF digits = <<>> THEN << 0, 0 >>
    ELSE CHOOSE r \in {
        CHOOSE r2 \in {
            << IF v[1] * radix + (low \div 65536) >= 65536 THEN 65536
               ELSE v[1] * radix + (low \div 65536),
               low % 65536 >>
            : low \in {v[2] * radix + HexValueOf(digits[Len(digits)])}} : TRUE
        : v \in {RadixValue(SubSeq(digits, 1, Len(digits) - 1), radix)}} : TRUE

\* parse_ipv4number: decimal, octal after 0, hex after 0x
parse_ipv4number(part) ==
    IF part = <<>> THEN NoParse
    ELSE CHOOSE r \in {
        CHOOSE r2 \in {
            IF \E i \in 1..Len(digits) :
                   \/ digits[i] \notin AsciiHexDigit
                   \/ HexValueOf(digits[i]) >= radix
            THEN NoParse
            ELSE CHOOSE r3 \in {
                \* 32 bits are at most 11 digits after the zeros at the front
                IF Len(sig) > 11 THEN Parsed(<< 65536, 0 >>, <<>>)
                ELSE Parsed(RadixValue(sig, radix), <<>>)
                : sig \in {SubSeq(digits, Span(digits, {Ch.zero}) + 1, Len(digits))}} : TRUE
            : digits \in {SubSeq(part, (IF radix = 16 THEN 3 ELSE IF radix = 8 THEN 2 ELSE 1),
                                 Len(part))}} : TRUE
        : radix \in {IF Len(part) >= 2 /\ part[1] = Ch.zero /\ part[2] \in Ords(<< "x", "X" >>)
                     THEN 16
                     ELSE IF Len(part) >= 2 /\ part[1] = Ch.zero THEN 8 ELSE 10}} : TRUE

\* ends_in_a_number: the last part between dots, or the one before an empty
\* last part, is made of digits or reads as a number
ends_in_a_number(domain) ==
    \E parts \in {Split(domain, Ch.dot)} :
        \E n \in {Len(parts)} :
            IF parts[n] = <<>> /\ n = 1 THEN FALSE
            ELSE \E last \in {IF parts[n] = <<>> THEN parts[n - 1] ELSE parts[n]} :
                    \/ last # <<>> /\ \A i \in 1..Len(last) : last[i] \in AsciiDigit
                    \/ parse_ipv4number(last).ok

\* parse_ipv4addr: at most four numbers, the last one filling the bytes that
\* the others leave; written as four decimal numbers
parse_ipv4addr(domain) ==
    CHOOSE r \in {
        IF Len(parts) > 4 THEN NoParse
        ELSE CHOOSE r2 \in {
            IF \E i \in 1..Len(nums) : ~nums[i].ok \/ nums[i].val[1] >= 65536 THEN NoParse
            ELSE CHOOSE r3 \in {
                IF \/ \E i \in 1..(n - 1) : b[i][1] # 0 \/ b[i][2] # 0 \/ b[i][3] # 0
                   \/ \E j \in 1..(n - 1) : b[n][j] # 0
                THEN NoParse
                ELSE Parsed(Flatten([i \in 1..4 |->
                                (IF i = 1 THEN <<>> ELSE << Ch.dot >>)
                                \o Decimal(IF i < n THEN b[i][4] ELSE b[n][i])] \o <<>>), <<>>)
                : n \in {Len(nums)},
                  b \in {[i \in 1..Len(nums) |->
                            << nums[i].val[1] \div 256, nums[i].val[1] % 256,
                               nums[i].val[2] \div 256, nums[i].val[2] % 256 >>] \o <<>>}} : TRUE
            : nums \in {[i \in 1..Len(parts) |-> parse_ipv4number(parts[i])] \o <<>>}} : TRUE
        : parts \in {CHOOSE q \in {IF p[Len(p)] = <<>> THEN SubSeq(p, 1, Len(p) - 1) ELSE p
                                   : p \in {Split(domain, Ch.dot)}} : TRUE}} : TRUE

\* the four numbers of an IPv4 address at the end of an IPv6 address: decimal,
\* without a zero at the front, at most 255
Ipv4InIpv6(text) ==
    CHOOSE r \in {
        IF \/ Len(parts) # 4
           \/ \E i \in 1..Len(parts) :
                \/ parts[i] = <<>>
                \/ Len(parts[i]) > 3
                \/ \E j \in 1..Len(parts[i]) : parts[i][j] \notin AsciiDigit
                \/ Len(parts[i]) > 1 /\ parts[i][1] = Ch.zero
        THEN NoParse
        ELSE CHOOSE r2 \in {
            IF \E i \in 1..4 : v[i] > 255 THEN NoParse
            ELSE Parsed(<< 256 * v[1] + v[2], 256 * v[3] + v[4] >>, <<>>)
            : v \in {[i \in 1..4 |-> RadixValue(parts[i], 10)[2]] \o <<>>}} : TRUE
        : parts \in {Split(text, Ch.dot)}} : TRUE

RECURSIVE Ipv6Pieces(_, _, _, _)
\* parse_ipv6addr, its loop: the text from place i on, after the pieces read so
\* far; compress is the number of pieces before "::", or 0
Ipv6Pieces(text, i, pieces, compress) ==
    IF i > Len(text) THEN Parsed([pieces |-> pieces, compress |-> compress], <<>>)
    ELSE IF Len(pieces) = 8 THEN NoParse
    ELSE IF text[i] = Ch.colon
    THEN IF compress # 0 THEN NoParse
         ELSE Ipv6Pieces(text, i + 1, Append(pieces, 0), Len(pieces) + 1)
    ELSE CHOOSE r \in {
        CHOOSE r2 \in {
            IF j > Len(text) THEN Ipv6Pieces(text, j, Append(pieces, value), compress)
            ELSE IF text[j] = Ch.dot
            THEN IF h = 0 \/ Len(pieces) > 6 THEN NoParse
                 ELSE CHOOSE r3 \in {
                     IF ~v4.ok THEN NoParse
                     ELSE Parsed([pieces |-> pieces \o v4.val, compress |-> compress], <<>>)
                     : v4 \in {Ipv4InIpv6(SubSeq(text, i, Len(text)))}} : TRUE
            ELSE IF text[j] = Ch.colon
            THEN IF j = Len(text) THEN NoParse
                 ELSE Ipv6Pieces(text, j + 1, Append(pieces, value), compress)
            ELSE NoParse
            : j \in {i + h}, value \in {RadixValue(SubSeq(text, i, i + h - 1), 16)[2]}} : TRUE
        : h \in {Span(SubSeq(text, i, IF i + 3 > Len(text) THEN Len(text) ELSE i + 3), AsciiHexDigit)}} : TRUE

\* write_ipv6: the pieces in hex, the first longest run of two or more zero
\* pieces written as "::"
write_ipv6(p) ==
    CHOOSE r \in {
        CHOOSE r2 \in {
            << Ch.open >>
            \o Flatten([k \in 1..8 |->
                   IF len >= 2 /\ k = start
                   THEN (IF k = 1 THEN << Ch.colon, Ch.colon >> ELSE << Ch.colon >>)
                   ELSE IF len >= 2 /\ k > start /\ k < start + len THEN <<>>
                   ELSE LowerHex(p[k]) \o (IF k < 8 THEN << Ch.colon >> ELSE <<>>)] \o <<>>)
            \o << Ch.close >>
            : start \in {IF len = 0 THEN 0
                         ELSE CHOOSE k \in 1..8 : run[k] = len /\ \A j \in 1..(k - 1) : run[j] < len}} : TRUE
        : run \in {[k \in 1..8 |->
                      IF p[k] # 0 \/ (k > 1 /\ p[k - 1] = 0) THEN 0
                      ELSE Span(SubSeq(p, k, 8), {0})] \o <<>>},
          len \in {CHOOSE m \in 0..8 :
                      /\ \A k \in 1..8 : Span(SubSeq(p, k, 8), {0}) <= m
                      /\ \E k \in 1..8 : Span(SubSeq(p, k, 8), {0}) = m}} : TRUE

\* parse_ipv6addr: the text between the brackets
parse_ipv6addr(text) ==
    IF \E i \in 1..Len(text) : text[i] >= 128 THEN NoParse
    ELSE IF text # <<>> /\ text[1] = Ch.colon /\ (Len(text) < 2 \/ text[2] # Ch.colon)
    THEN NoParse
    ELSE CHOOSE r \in {
        IF ~q.ok THEN NoParse
        ELSE CHOOSE r2 \in {
            IF c = 0 /\ Len(p) # 8 THEN NoParse
            ELSE Parsed(write_ipv6(IF c = 0 THEN p
                                   ELSE SubSeq(p, 1, c) \o [k \in 1..(8 - Len(p)) |-> 0]
                                        \o SubSeq(p, c + 1, Len(p))), <<>>)
            : p \in {q.val.pieces}, c \in {q.val.compress}} : TRUE
        : q \in {IF text # <<>> /\ text[1] = Ch.colon
                 THEN Ipv6Pieces(text, 3, << 0 >>, 1)
                 ELSE Ipv6Pieces(text, 1, <<>>, 0)}} : TRUE

\* the characters that a domain, and a host that is not a domain, may not hold
InvalidDomainChars ==
    (0..32) \cup {127}
    \cup Ords(<< "#", "%", "/", ":", "<", ">", "?", "@", "[", "\\", "]", "^", "|" >>)

InvalidHostChars ==
    {0, 9, 10, 13}
    \cup Ords(<< " ", "#", "/", ":", "<", ">", "?", "@", "[", "\\", "]", "^", "|" >>)

\* punycode: the value of a digit, a to z as 0 to 25 and 0 to 9 as 26 to 35
punycode_digit(c) ==
    IF c \in Ords(LowerLetters) THEN c - Ord("a")
    ELSE IF c \in Ords(UpperLetters) THEN c - Ord("A")
    ELSE IF c \in AsciiDigit THEN c - Ch.zero + 26
    ELSE -1

\* a number of 32 bits as << high, low >>, 16 bits each
U32(n) == << n \div 65536, n % 65536 >>

\* u32::checked_mul by a number of at most 65535
checked_mul(v, m) ==
    CHOOSE r \in {
        IF v[1] * m + low \div 65536 >= 65536 THEN NoParse
        ELSE Parsed(<< v[1] * m + low \div 65536, low % 65536 >>, <<>>)
        : low \in {v[2] * m}} : TRUE

\* u32::checked_add
checked_add(v, w) ==
    CHOOSE r \in {
        IF v[1] + w[1] + low \div 65536 >= 65536 THEN NoParse
        ELSE Parsed(<< v[1] + w[1] + low \div 65536, low % 65536 >>, <<>>)
        : low \in {v[2] + w[2]}} : TRUE

\* v - w for w <= v
U32Sub(v, w) ==
    IF v[2] >= w[2] THEN << v[1] - w[1], v[2] - w[2] >>
    ELSE << v[1] - w[1] - 1, v[2] + 65536 - w[2] >>

\* v / n and v % n for 0 < n < 32768
U32Div(v, n) == << v[1] \div n, ((v[1] % n) * 65536 + v[2]) \div n >>

U32Mod(v, n) == ((v[1] % n) * 65536 + v[2]) % n

RECURSIVE adapt_loop(_, _)
adapt_loop(delta, k) ==
    IF delta[1] > 0 \/ delta[2] > 455 THEN adapt_loop(U32Div(delta, 35), k + 36)
    ELSE k + (36 * delta[2]) \div (delta[2] + 38)

\* punycode adapt: the bias for the next delta
adapt(delta, num_points, first_time) ==
    CHOOSE r \in {
        adapt_loop(checked_add(d, U32Div(d, num_points)).val, 0)
        : d \in {U32Div(delta, IF first_time THEN 700 ELSE 2)}} : TRUE

\* i + digit * weight in 32 bits
checked_mul_add(i, digit, weight) ==
    CHOOSE r \in {
        IF ~product.ok THEN NoParse ELSE checked_add(i, product.val)
        : product \in {checked_mul(weight, digit)}} : TRUE

RECURSIVE punycode_delta(_, _, _, _, _, _)
\* Decoder::decode, one variable-length integer added to i, from the digit
\* at pos: the new i and the place after the integer. i and weight are
\* numbers of 32 bits, and the arithmetic fails when it overflows
punycode_delta(input, pos, i, weight, k, bias) ==
    IF pos > Len(input) THEN NoParse
    ELSE CHOOSE r \in {
        IF digit < 0 \/ ~sum.ok THEN NoParse
        ELSE IF digit < t THEN Parsed(sum.val, pos + 1)
        ELSE IF ~w.ok THEN NoParse
        ELSE punycode_delta(input, pos + 1, sum.val, w.val, k + 36, bias)
        : digit \in {punycode_digit(input[pos])},
          t \in {IF k <= bias THEN 1 ELSE IF k >= bias + 26 THEN 26 ELSE k - bias},
          sum \in {IF punycode_digit(input[pos]) < 0 THEN NoParse
                   ELSE checked_mul_add(i, punycode_digit(input[pos]), weight)},
          w \in {checked_mul(weight, 36 - (IF k <= bias THEN 1
                                           ELSE IF k >= bias + 26 THEN 26
                                           ELSE k - bias))}} : TRUE

\* code_point.checked_add(i / (length + 1)) as a character: the number, or
\* -1 when it is above 10FFFF or of a surrogate
next_code_point(code_point, q) ==
    IF q[1] > 16 THEN -1
    ELSE IF code_point + 65536 * q[1] + q[2] > 1114111 THEN -1
    ELSE IF code_point + 65536 * q[1] + q[2] \in 55296..57343 THEN -1
    ELSE code_point + 65536 * q[1] + q[2]

RECURSIVE punycode_insertions(_, _, _, _, _, _)
\* Decoder::decode, the characters after the last hyphen: each integer gives
\* a character and the place of out where it goes
punycode_insertions(input, pos, out, code_point, bias, i) ==
    IF pos > Len(input) THEN Parsed(out, <<>>)
    ELSE CHOOSE r \in {
        IF ~d.ok THEN NoParse
        ELSE CHOOSE r2 \in {
            IF n < 0 THEN NoParse
            ELSE punycode_insertions(input, d.rest, grown, n, b, at + 1)
            : n \in {next_code_point(code_point, U32Div(d.val, Len(out) + 1))},
              at \in {U32Mod(d.val, Len(out) + 1)},
              b \in {adapt(U32Sub(d.val, U32(i)), Len(out) + 1, i = 0)},
              grown \in {SubSeq(out, 1, U32Mod(d.val, Len(out) + 1))
                         \o << next_code_point(code_point, U32Div(d.val, Len(out) + 1)) >>
                         \o SubSeq(out, U32Mod(d.val, Len(out) + 1) + 1, Len(out))}} : TRUE
        : d \in {punycode_delta(input, pos, U32(i), U32(1), 36, bias)}} : TRUE

\* punycode Decoder::decode: the characters of a label, as numbers; what
\* stands before the last hyphen is kept, in lower case, unless that hyphen
\* is the first character
punycode_decode(input) ==
    CHOOSE r \in {
        IF p # <<>> /\ p[Len(p)] > 1
        THEN punycode_insertions(input, p[Len(p)] + 1,
                                 [j \in 1..(p[Len(p)] - 1) |->
                                     IF input[j] \in Ords(UpperLetters) THEN input[j] + 32
                                     ELSE input[j]] \o <<>>,
                                 128, 72, 0)
        ELSE punycode_insertions(input, 1, <<>>, 128, 72, 0)
        : p \in {PlacesOf(input, {Ord("-")})}} : TRUE

\* Uts46::process, a label that begins with xn--: the rest, of at most 2000
\* characters, must be punycode of a label of at most 1000 characters, one
\* of them outside ASCII; without the tables of IDNA the characters are not
\* looked up, so all that is refused besides is the replacement character,
\* and a joiner that begins the label
punycode_label(label) ==
    /\ Len(label) - 4 <= 2000
    /\ \E d \in {punycode_decode(SubSeq(label, 5, Len(label)))} :
        /\ d.ok
        /\ Len(d.val) <= 1000
        /\ \E i \in 1..Len(d.val) : d.val[i] >= 128
        /\ \A i \in 1..Len(d.val) : d.val[i] # 65533
        /\ d.val[1] \notin {8204, 8205}

\* Host::parse: the host of a special url
Host_parse(text) ==
    IF text # <<>> /\ text[1] = Ch.open
    THEN IF text[Len(text)] # Ch.close THEN NoParse
         ELSE parse_ipv6addr(SubSeq(text, 2, Len(text) - 1))
    ELSE CHOOSE r \in {
        \* domain_to_ascii: the lower case of an ASCII domain whose labels in
        \* punycode are sound
        IF \E i \in 1..Len(domain) : domain[i] >= 128 THEN NoParse
        ELSE IF \E labels \in {Split(domain, Ch.dot)} : \E i \in 1..Len(labels) :
                    /\ Len(labels[i]) >= 4
                    /\ SubSeq(labels[i], 1, 4) = Codes(<< "x", "n", "-", "-" >>)
                    /\ ~punycode_label(labels[i])
        THEN NoParse
        ELSE IF domain = <<>> THEN NoParse
        ELSE IF \E i \in 1..Len(domain) : domain[i] \in InvalidDomainChars THEN NoParse
        ELSE IF ends_in_a_number(domain) THEN parse_ipv4addr(domain)
        ELSE Parsed(domain, <<>>)
        : domain \in {CHOOSE q \in {
                          [i \in 1..Len(d) |->
                              IF d[i] \in Ords(UpperLetters) THEN d[i] + 32 ELSE d[i]] \o <<>>
                          : d \in {percent_decode(text)}} : TRUE}} : TRUE

\* Host::parse_opaque: the host of a url that is not special
parse_opaque(text) ==
    IF text # <<>> /\ text[1] = Ch.open
    THEN IF text[Len(text)] # Ch.close THEN NoParse
         ELSE parse_ipv6addr(SubSeq(text, 2, Len(text) - 1))
    ELSE IF \E i \in 1..Len(text) : text[i] \in InvalidHostChars THEN NoParse
    ELSE Parsed(percent_encode(text, CONTROLS), <<>>)

\* SchemeType::from and default_port: the special schemes, each with its
\* port, -1 for file, which has none
SpecialSchemes ==
    { <<Codes(<< "h", "t", "t", "p" >>), 80>>,
      <<Codes(<< "h", "t", "t", "p", "s" >>), 443>>,
      <<Codes(<< "w", "s" >>), 80>>,
      <<Codes(<< "w", "s", "s" >>), 443>>,
      <<Codes(<< "f", "t", "p" >>), 21>>,
      <<Codes(<< "f", "i", "l", "e" >>), -1>> }

\* SchemeType::is_special: File or SpecialNotFile
is_special(scheme) == \E s \in SpecialSchemes : s[1] = scheme

\* SchemeType::is_file
is_file(scheme) == scheme = Codes(<< "f", "i", "l", "e" >>)

default_port(scheme) ==
    IF is_special(scheme) THEN (CHOOSE s \in SpecialSchemes : s[1] = scheme)[2] ELSE -1

\* what may follow the letter and the colon of a drive of Windows
DriveStops == {Ch.slash, Ch.backslash, Ch.question, Ch.hash}

\* a letter, then : or |, then nothing or one of / \ ? #
starts_with_windows_drive_letter(text) ==
    /\ Len(text) >= 2
    /\ text[1] \in AsciiAlpha
    /\ text[2] \in Ords(<< ":", "|" >>)
    /\ (Len(text) = 2 \/ text[3] \in DriveStops)

path_starts_with_windows_drive_letter(text) ==
    /\ text # <<>>
    /\ text[1] \in DriveStops
    /\ starts_with_windows_drive_letter(Tail(text))

is_windows_drive_letter(segment) ==
    Len(segment) = 2 /\ starts_with_windows_drive_letter(segment)

is_normalized_windows_drive_letter(segment) ==
    is_windows_drive_letter(segment) /\ segment[2] = Ch.colon

\* Parser::parse_scheme: a letter, then letters, digits, + - and . up to a colon
parse_scheme(input) ==
    CHOOSE r \in {
        IF \/ input = <<>>
           \/ input[1] \notin AsciiAlpha
           \/ k = Len(input)
           \/ input[k + 1] # Ch.colon
        THEN NoParse
        ELSE Parsed([i \in 1..k |->
                        IF input[i] \in Ords(UpperLetters) THEN input[i] + 32 ELSE input[i]] \o <<>>,
                    SubSeq(input, k + 2, Len(input)))
        : k \in {Span(input, AsciiAlpha \cup AsciiDigit \cup Ords(<< "+", "-", "." >>))}} : TRUE

\* what ends the authority, and a segment of the path
AuthorityStops(special) ==
    {Ch.slash, Ch.question, Ch.hash} \cup (IF special THEN {Ch.backslash} ELSE {})

\* Parser::parse_userinfo: what stands before the last @ of the authority, as
\* a user name and a password
parse_userinfo(ser, input, special) ==
    CHOOSE r \in {
        IF ats = <<>> THEN [ok |-> TRUE, ser |-> ser, rest |-> input]
        ELSE CHOOSE r2 \in {
            IF last = 1
            THEN IF rest # <<>> /\ rest[1] \in AuthorityStops(special) THEN NoParse
                 ELSE [ok |-> TRUE, ser |-> ser, rest |-> rest]
            ELSE CHOOSE r3 \in {
                [ok |-> TRUE,
                 ser |-> ser \o percent_encode(user, USERINFO)
                             \o (IF pass # <<>>
                                 THEN << Ch.colon >> \o percent_encode(pass, USERINFO)
                                 ELSE <<>>)
                             \o (IF user # <<>> \/ pass # <<>> THEN << Ch.at >> ELSE <<>>),
                 rest |-> rest]
                : user \in {SubSeq(input, 1, c)},
                  pass \in {SubSeq(input, c + 2, last - 1)}} : TRUE
            : rest \in {SubSeq(input, last + 1, Len(input))},
              c \in {Span(SubSeq(input, 1, last - 1), (0..255) \ {Ch.colon})}} : TRUE
        : ats \in {PlacesOf(SubSeq(input, 1, Span(input, (0..255) \ AuthorityStops(special))),
                            {Ch.at})},
          last \in {CHOOSE q \in {IF a = <<>> THEN 0 ELSE a[Len(a)]
              : a \in {PlacesOf(SubSeq(input, 1, Span(input, (0..255) \ AuthorityStops(special))),
                                {Ch.at})}} : TRUE}} : TRUE

\* Parser::parse_host, its scan: the host ends before a colon outside brackets,
\* or before what ends the authority
HostLen(input, special) ==
    CHOOSE k \in 0..Len(input) :
        LET Ends(i) ==
                \/ input[i] \in AuthorityStops(special)
                \/ /\ input[i] = Ch.colon
                   /\ \E b \in {PlacesOf(SubSeq(input, 1, i - 1), {Ch.open, Ch.close})} :
                        b = <<>> \/ input[b[Len(b)]] = Ch.close
        IN  /\ \A j \in 1..k : ~Ends(j)
            /\ k = Len(input) \/ Ends(k + 1)

\* Parser::parse_port: digits up to what begins the path; the port of the
\* scheme is left out
parse_port(input, scheme) ==
    CHOOSE r \in {
        IF k < Len(input) /\ input[k + 1] \notin {Ch.slash, Ch.backslash, Ch.question, Ch.hash}
        THEN NoParse
        ELSE CHOOSE r2 \in {
            IF Len(sig) > 5 THEN NoParse
            ELSE CHOOSE r3 \in {
                IF v[1] # 0 THEN NoParse
                ELSE Parsed(IF k = 0 \/ v[2] = default_port(scheme)
                            THEN <<>>
                            ELSE << Ch.colon >> \o Decimal(v[2]),
                            SubSeq(input, k + 1, Len(input)))
                : v \in {RadixValue(sig, 10)}} : TRUE
            : sig \in {SubSeq(input, Span(SubSeq(input, 1, k), {Ch.zero}) + 1, k)}} : TRUE
        : k \in {Span(input, AsciiDigit)}} : TRUE

\* Parser::parse_host_and_port
parse_host_and_port(ser, input, scheme) ==
    CHOOSE r \in {
        CHOOSE r2 \in {
            IF special /\ k = 0 THEN NoParse
            ELSE CHOOSE r3 \in {
                IF ~host.ok THEN NoParse
                ELSE IF host.val = <<>> /\ (special \/ (rest # <<>> /\ rest[1] = Ch.colon))
                THEN NoParse
                ELSE IF rest # <<>> /\ rest[1] = Ch.colon
                THEN CHOOSE r4 \in {
                         IF ~port.ok THEN NoParse
                         ELSE [ok |-> TRUE, ser |-> ser \o host.val \o port.val,
                               host |-> host.val, rest |-> port.rest]
                         : port \in {parse_port(Tail(rest), scheme)}} : TRUE
                ELSE [ok |-> TRUE, ser |-> ser \o host.val, host |-> host.val, rest |-> rest]
                : host \in {IF special THEN Host_parse(SubSeq(input, 1, k))
                            ELSE parse_opaque(SubSeq(input, 1, k))},
                  rest \in {SubSeq(input, k + 1, Len(input))}} : TRUE
            : k \in {HostLen(input, special)}} : TRUE
        : special \in {is_special(scheme)}} : TRUE

\* the segments "." and ".." and their forms in percent
DotForms == { << Ch.dot >>, Codes(<< "%", "2", "e" >>), Codes(<< "%", "2", "E" >>) }

DoubleDotForms == {a \o b : a \in DotForms, b \in DotForms}

EndsWithSlash(ser) == ser # <<>> /\ ser[Len(ser)] = Ch.slash

\* Parser::last_slash_can_be_removed: the slash before the last one is not the
\* root of the path and does not begin a drive of Windows
last_slash_can_be_removed(ser, path_start) ==
    \E slashes \in {PlacesOf(SubSeq(ser, 1, Len(ser) - 1), {Ch.slash})} :
        /\ slashes # <<>>
        /\ slashes[Len(slashes)] - 1 >= path_start
        /\ ~path_starts_with_windows_drive_letter(
                SubSeq(ser, slashes[Len(slashes)], Len(ser)))

\* Parser::pop_path: the path loses what follows its last slash, unless that
\* is the drive of a file url
pop_path(ser, scheme, path_start) ==
    IF Len(ser) <= path_start THEN ser
    ELSE CHOOSE r \in {
        IF slashes = <<>> THEN ser
        ELSE IF /\ is_file(scheme)
                /\ is_normalized_windows_drive_letter(
                       SubSeq(ser, path_start + slashes[Len(slashes)] + 1, Len(ser)))
        THEN ser
        ELSE SubSeq(ser, 1, path_start + slashes[Len(slashes)])
        : slashes \in {PlacesOf(SubSeq(ser, path_start + 1, Len(ser)), {Ch.slash})}} : TRUE

\* Parser::shorten_path: the path loses its last segment
shorten_path(ser, scheme, path_start) ==
    IF Len(ser) = path_start THEN ser
    ELSE IF /\ is_file(scheme)
            /\ is_normalized_windows_drive_letter(SubSeq(ser, path_start + 1, Len(ser)))
    THEN ser
    ELSE pop_path(ser, scheme, path_start)

\* Parser::parse_path, its end for a file url: the slashes that begin the path
\* become one
trim_file_path(ser, path_start) ==
    SubSeq(ser, 1, path_start) \o << Ch.slash >>
        \o SubSeq(ser, path_start + 1 + Span(SubSeq(ser, path_start + 1, Len(ser)), {Ch.slash}),
                  Len(ser))

RECURSIVE parse_path(_, _, _, _, _, _)
\* Parser::parse_path: segment after segment; path_start is the length of what
\* stands before the path, has_host becomes FALSE when the first segment of a
\* file url is a drive. The characters of a segment are written when the
\* segment ends or a tab or line end is skipped; in a file url a character
\* that comes when the path written so far is a drive, X:, gets a slash
\* before it, which is the case when the third character of the first
\* segment is one of breaks, and the segment is then taken to begin one
\* character later than it did
parse_path(ser, scheme, has_host, path_start, input, breaks) ==
    CHOOSE r \in {
        CHOOSE r2 \in {
            CHOOSE r3 \in {
                CHOOSE r4 \in {
                    IF ends
                    THEN parse_path(next.ser, scheme, next.has_host, path_start,
                                    SubSeq(input, k + 2, Len(input)), breaks)
                    ELSE [ser |-> IF is_file(scheme) THEN trim_file_path(next.ser, path_start)
                                  ELSE next.ser,
                          rest |-> SubSeq(input, k + 1, Len(input)),
                          has_host |-> next.has_host]
                    : next \in {
                        IF segment \in DoubleDotForms
                        THEN CHOOSE r5 \in {
                                 [ser |-> IF ends /\ ~EndsWithSlash(short)
                                          THEN Append(short, Ch.slash) ELSE short,
                                  has_host |-> has_host]
                                 : short \in {shorten_path(
                                     IF /\ EndsWithSlash(base)
                                        /\ last_slash_can_be_removed(base, path_start)
                                     THEN SubSeq(base, 1, Len(base) - 1) ELSE base,
                                     scheme, path_start)}} : TRUE
                        ELSE IF segment \in DotForms
                        THEN [ser |-> IF EndsWithSlash(base) THEN base
                                      ELSE Append(base, Ch.slash),
                              has_host |-> has_host]
                        ELSE IF /\ is_file(scheme)
                                /\ Len(base) = path_start + 1
                                /\ is_windows_drive_letter(segment)
                        THEN [ser |-> base \o << segment[1], Ch.colon >>
                                           \o (IF ends THEN << Ch.slash >> ELSE <<>>),
                              has_host |-> FALSE]
                        ELSE [ser |-> base \o segment \o (IF ends THEN << Ch.slash >> ELSE <<>>),
                              has_host |-> has_host]}} : TRUE
                : base \in {IF drive THEN Append(ser, input[1]) ELSE ser},
                  segment \in {IF drive
                               THEN << Ch.colon, Ch.slash >>
                                    \o percent_encode(SubSeq(input, 3, k), PATH)
                               ELSE percent_encode(SubSeq(input, 1, k), PATH)}} : TRUE
            : drive \in {/\ is_file(scheme)
                         /\ Len(ser) = path_start + 1
                         /\ k >= 3
                         /\ is_normalized_windows_drive_letter(SubSeq(input, 1, 2))
                         /\ (Len(input) - 2) \in breaks},
              ends \in {/\ k < Len(input)
                        /\ input[k + 1] \in {Ch.slash} \cup (IF is_special(scheme)
                                                            THEN {Ch.backslash} ELSE {})}} : TRUE
        : k \in {Span(input, (0..255) \ AuthorityStops(is_special(scheme)))}} : TRUE

\* Parser::parse_path_start
parse_path_start(ser, scheme, has_host, input, breaks) ==
    IF is_special(scheme)
    THEN IF ~EndsWithSlash(ser)
         THEN parse_path(Append(ser, Ch.slash), scheme, has_host, Len(ser),
                         IF input # <<>> /\ input[1] \in {Ch.slash, Ch.backslash}
                         THEN Tail(input) ELSE input, breaks)
         ELSE parse_path(ser, scheme, has_host, Len(ser), input, breaks)
    ELSE IF input # <<>> /\ input[1] \in {Ch.question, Ch.hash}
    THEN [ser |-> ser, rest |-> input, has_host |-> has_host]
    ELSE parse_path(IF input # <<>> /\ input[1] # Ch.slash THEN Append(ser, Ch.slash) ELSE ser,
                    scheme, has_host, Len(ser), input, breaks)

\* Parser::parse_cannot_be_a_base_path
parse_cannot_be_a_base_path(ser, input) ==
    CHOOSE r \in {
        [ser |-> ser \o percent_encode(SubSeq(input, 1, k), CONTROLS),
         rest |-> SubSeq(input, k + 1, Len(input))]
        : k \in {Span(input, (0..255) \ {Ch.question, Ch.hash})}} : TRUE

\* Parser::parse_query_and_fragment, on what the path left
parse_query_and_fragment(ser, special, input) ==
    IF input = <<>> THEN ser
    ELSE IF input[1] = Ch.hash
    THEN ser \o << Ch.hash >> \o percent_encode(Tail(input), FRAGMENT)
    ELSE CHOOSE r \in {
        ser \o << Ch.question >>
            \o percent_encode(SubSeq(input, 2, k + 1), IF special THEN SPECIAL_QUERY ELSE QUERY)
            \o (IF k + 1 < Len(input)
                THEN << Ch.hash >> \o percent_encode(SubSeq(input, k + 3, Len(input)), FRAGMENT)
                ELSE <<>>)
        : k \in {Span(Tail(input), (0..255) \ {Ch.hash})}} : TRUE

\* Parser::with_query_and_fragment: a path without authority that begins with
\* two slashes is written after /. so that it is not read as an authority; a
\* /. that stands before a path with one slash is taken away
with_query_and_fragment(ser, scheme, path_start, input) ==
    Parsed(parse_query_and_fragment(
               IF path_start = Len(scheme) + 1
               THEN IF /\ Len(ser) >= path_start + 2
                       /\ SubSeq(ser, path_start + 1, path_start + 2) = << Ch.slash, Ch.slash >>
                    THEN SubSeq(ser, 1, path_start) \o << Ch.slash, Ch.dot >>
                             \o SubSeq(ser, path_start + 1, Len(ser))
                    ELSE ser
               ELSE IF /\ path_start = Len(scheme) + 3
                       /\ SubSeq(ser, Len(scheme) + 1, path_start)
                              = << Ch.colon, Ch.slash, Ch.dot >>
                       /\ ~(Len(ser) >= path_start + 2 /\ ser[path_start + 2] = Ch.slash)
               THEN SubSeq(ser, 1, Len(scheme)) \o << Ch.colon >>
                        \o SubSeq(ser, path_start + 1, Len(ser))
               ELSE ser,
               is_special(scheme), input), <<>>)

\* Parser::after_double_slash: authority, path, query and fragment
after_double_slash(ser, input, scheme, breaks) ==
    CHOOSE r \in {
        IF ~u.ok THEN NoParse
        ELSE CHOOSE r2 \in {
            IF ~h.ok THEN NoParse
            ELSE IF h.host = <<>> /\ u.ser # ser THEN NoParse
            ELSE CHOOSE r3 \in {
                with_query_and_fragment(p.ser, scheme, Len(h.ser), p.rest)
                : p \in {parse_path_start(h.ser, scheme, TRUE, h.rest, breaks)}} : TRUE
            : h \in {parse_host_and_port(u.ser, u.rest, scheme)}} : TRUE
        : u \in {parse_userinfo(ser, input, is_special(scheme))}} : TRUE

\* Parser::parse_non_special: an authority after two slashes, else a path
\* after one slash, else a path that cannot be a base
parse_non_special(ser, input, scheme, breaks) ==
    IF Len(input) >= 2 /\ input[1] = Ch.slash /\ input[2] = Ch.slash
    THEN after_double_slash(ser \o << Ch.slash, Ch.slash >>, SubSeq(input, 3, Len(input)), scheme,
                            breaks)
    ELSE CHOOSE r \in {
        with_query_and_fragment(p.ser, scheme, Len(ser), p.rest)
        : p \in {IF input # <<>> /\ input[1] = Ch.slash
                 THEN parse_path(Append(ser, Ch.slash), scheme, FALSE, Len(ser), Tail(input),
                                 breaks)
                 ELSE parse_cannot_be_a_base_path(ser, input)}} : TRUE

\* Parser::file_host: the text up to one of / \ ? #, unless it is a drive of
\* Windows, which is left to the path
file_host(input) ==
    CHOOSE r \in {
        IF is_windows_drive_letter(SubSeq(input, 1, k))
        THEN [host |-> <<>>, rest |-> input]
        ELSE [host |-> SubSeq(input, 1, k), rest |-> SubSeq(input, k + 1, Len(input))]
        : k \in {Span(input, (0..255) \ DriveStops)}} : TRUE

\* Parser::parse_file_host: no host when the text is empty or reads as
\* localhost, else the host as Host::parse writes it
parse_file_host(ser, input) ==
    CHOOSE r \in {
        IF f.host = <<>>
        THEN [ok |-> TRUE, ser |-> ser, has_host |-> FALSE, rest |-> f.rest]
        ELSE CHOOSE r2 \in {
            IF ~h.ok THEN NoParse
            ELSE IF h.val = Codes(<< "l", "o", "c", "a", "l", "h", "o", "s", "t" >>)
            THEN [ok |-> TRUE, ser |-> ser, has_host |-> FALSE, rest |-> f.rest]
            ELSE [ok |-> TRUE, ser |-> ser \o h.val, has_host |-> TRUE, rest |-> f.rest]
            : h \in {Host_parse(f.host)}} : TRUE
        : f \in {file_host(input)}} : TRUE

\* Parser::parse_file, without a base url: a host after two slashes, and the
\* path; a host whose path begins with a drive is taken away
parse_file(input, breaks) ==
    CHOOSE r \in {
        IF /\ Len(input) >= 2
           /\ input[1] \in {Ch.slash, Ch.backslash}
           /\ input[2] \in {Ch.slash, Ch.backslash}
        THEN CHOOSE r2 \in {
            IF ~h.ok THEN NoParse
            ELSE CHOOSE r3 \in {
                Parsed(parse_query_and_fragment(
                           IF p.has_host THEN p.ser
                           ELSE file \o SubSeq(p.ser, Len(h.ser) + 1, Len(p.ser)),
                           TRUE, p.rest), <<>>)
                : p \in {IF h.has_host
                         THEN parse_path_start(h.ser, scheme, TRUE, h.rest, breaks)
                         ELSE parse_path(Append(h.ser, Ch.slash), scheme, FALSE,
                                         Len(h.ser), h.rest, breaks)}} : TRUE
            : h \in {parse_file_host(file, SubSeq(input, 3, Len(input)))}} : TRUE
        ELSE CHOOSE r4 \in {
            Parsed(parse_query_and_fragment(p.ser, TRUE, p.rest), <<>>)
            : p \in {IF input # <<>> /\ input[1] \in {Ch.slash, Ch.backslash}
                     THEN parse_path(file, scheme, FALSE, Len(file), input, breaks)
                     ELSE parse_path(Append(file, Ch.slash), scheme, FALSE,
                                     Len(file), input, breaks)}} : TRUE
        : file \in {Codes(<< "f", "i", "l", "e", ":", "/", "/" >>)},
          scheme \in {Codes(<< "f", "i", "l", "e" >>)}} : TRUE

\* Parser::parse_with_scheme, without a base url
parse_with_scheme(scheme, input, breaks) ==
    IF is_file(scheme) THEN parse_file(input, breaks)
    ELSE IF is_special(scheme)
    THEN after_double_slash(scheme \o << Ch.colon, Ch.slash, Ch.slash >>,
             SubSeq(input, Span(input, {Ch.slash, Ch.backslash}) + 1, Len(input)), scheme,
             breaks)
    ELSE parse_non_special(Append(scheme, Ch.colon), input, scheme, breaks)

\* Parser::parse_url, on bytes: a text without a scheme is no url
Url_parse(bytes) ==
    IF ~IsUtf8(bytes) THEN NoParse
    ELSE CHOOSE r \in {
        IF ~s.ok THEN NoParse ELSE parse_with_scheme(s.val, s.rest, input_breaks(bytes))
        : s \in {parse_scheme(url_input(bytes))}} : TRUE

\* Option<Url>: 0, or 1 and a text that Url::parse reads
DecodeDerpUrl(bytes) ==
    IF bytes = <<>> THEN NoParse
    ELSE IF First(bytes) = 0 THEN Parsed(None, Rest(bytes))
    ELSE IF First(bytes) # 1 THEN NoParse
    ELSE CHOOSE r \in {
        IF ~n.ok THEN NoParse
        ELSE CHOOSE r2 \in {
            IF ~t.ok THEN NoParse
            ELSE CHOOSE r3 \in {
                IF ~u.ok THEN NoParse ELSE Parsed(Some(Bytes(u.val)), t.rest)
                : u \in {Url_parse(Expand(t.val))}} : TRUE
            : t \in {TakeBytes(n.rest, n.val)}} : TRUE
        : n \in {TakeVarintUsize(Rest(bytes))}} : TRUE

DecodeNodeAddr(bytes) ==
    CHOOSE r \in {
        IF ~id.ok THEN NoParse
        ELSE CHOOSE r2 \in {
            IF ~u.ok THEN NoParse
            ELSE CHOOSE r3 \in {
                IF ~n.ok THEN NoParse
                ELSE CHOOSE r4 \in {
                    IF ~a.ok THEN NoParse
                    ELSE Parsed(NodeAddr(id.val, u.val, a.val), a.rest)
                    : a \in {DecodeEachSocketAddr(n.rest, n.val, {})}} : TRUE
                : n \in {TakeVarintUsize(u.rest)}} : TRUE
            : u \in {DecodeDerpUrl(id.rest)}} : TRUE
        : id \in {DecodeNodeId(bytes)}} : TRUE

\* Ticket::from_bytes of BlobTicket: the only variant of the wire format, and
\* some addressing information
DecodeBlobTicket(bytes) ==
    CHOOSE r \in {
        IF ~v.ok \/ v.val # 0 THEN NoParse
        ELSE CHOOSE r2 \in {
            IF ~n.ok THEN NoParse
            ELSE CHOOSE r3 \in {
                IF ~f.ok THEN NoParse
                ELSE CHOOSE r4 \in {
                    IF ~h.ok THEN NoParse
                    ELSE IF /\ ~n.val.info.derp_url.some
                            /\ n.val.info.direct_addresses = {}
                         THEN NoParse
                         ELSE Parsed(BlobTicket(n.val, f.val, h.val), h.rest)
                    : h \in {DecodeHash(f.rest)}} : TRUE
                : f \in {DecodeUnitVariant(BlobFormats, n.rest)}} : TRUE
            : n \in {DecodeNodeAddr(v.rest)}} : TRUE
        : v \in {TakeVarintU32(bytes)}} : TRUE

\* BlobTicket::from_str: the kind "blob", then base32 of either case
BlobTicketFromStr(text) ==
    IF Len(text) < 4 \/ SubSeq(text, 1, 4) # <<"b", "l", "o", "b">> THEN NoParse
    ELSE CHOOSE r \in {
        IF ~b.ok THEN NoParse
        ELSE CHOOSE r2 \in {
            IF ~t.ok THEN NoParse ELSE Parsed(t.val, <<>>)
            : t \in {DecodeBlobTicket(b.val)}} : TRUE
        : b \in {Base32Decode(ToUpperAll(SubSeq(text, 5, Len(text))))}} : TRUE

\* ContentArg::from_str with the attempts in another order (hash and format first)
from_str_format_first(s) ==
    IF HashAndFormatFromStr(s).ok
    THEN Success(Variant("HashAndFormat", HashAndFormatFromStr(s).val))
    ELSE IF HashFromStr(s).ok THEN Success(Variant("Hash", HashFromStr(s).val))
    ELSE IF BlobTicketFromStr(s).ok THEN Success(Variant("Ticket", BlobTicketFromStr(s).val))
    ELSE Failure("invalid hash and format")

\* a from_str that does not attempt the ticket
from_str_no_ticket(s) ==
    IF HashFromStr(s).ok THEN Success(Variant("Hash", HashFromStr(s).val))
    ELSE IF HashAndFormatFromStr(s).ok
    THEN Success(Variant("HashAndFormat", HashAndFormatFromStr(s).val))
    ELSE Failure("invalid hash and format")

\* impl FromStr for ContentArg
from_str(s) ==
    IF HashFromStr(s).ok THEN Success(Variant("Hash", HashFromStr(s).val))
    ELSE IF HashAndFormatFromStr(s).ok
    THEN Success(Variant("HashAndFormat", HashAndFormatFromStr(s).val))
    ELSE IF BlobTicketFromStr(s).ok THEN Success(Variant("Ticket", BlobTicketFromStr(s).val))
    ELSE Failure("invalid hash and format")

\* a hash_and_format that takes every content for a raw blob
hash_and_format_raw(c) ==
    CASE c.tag = "Hash" -> HashAndFormat(c.body, "Raw")
      [] c.tag = "HashAndFormat" -> HashAndFormat(c.body.hash, "Raw")
      [] c.tag = "Ticket" -> HashAndFormat(c.body.hash, "Raw")

\* ContentArg::hash_and_format
hash_and_format(c) ==
    CASE c.tag = "Hash" -> HashAndFormat(c.body, "Raw")
      [] c.tag = "HashAndFormat" -> c.body
      [] c.tag = "Ticket" -> HashAndFormat(c.body.hash, c.body.format)

\* a host that is defined for no content
host_none(c) == None

\* ContentArg::host
host(c) ==
    CASE c.tag = "Hash" -> None
      [] c.tag = "HashAndFormat" -> None
      [] c.tag = "Ticket" -> Some(c.body.node.node_id)

\* the strings given on the command line: every hash in hex and in base32 of
\* either case, with the letter of a hash sequence, tickets, and strings that
\* are none of them
ArgHashes == {HashA, HashB, Fill(0, HashLen), Fill(255, HashLen)}

LocalV4 == SocketAddr("V4", Bytes(<<127, 0, 0, 1>>), 1024)

LocalV6 == SocketAddr("V6", Cat(Fill(0, 15), Fill(1, 1)), 4433)

\* a derp url as it may be written, and as Url::parse gives it back
DerpUrlWritten ==
    Codes(<< "H", "t", "t", "p", "s", ":", "/", "/", "D", "e", "r", "p", ".",
             "e", "x", "a", "m", "p", "l", "e", ":", "4", "4", "3" >>)

DerpUrl ==
    Codes(<< "h", "t", "t", "p", "s", ":", "/", "/", "d", "e", "r", "p", ".",
             "e", "x", "a", "m", "p", "l", "e", "/" >>)

ArgTickets ==
    { BlobTicket(NodeAddr(H1, None, {LocalV4}), "Raw", HashA),
      BlobTicket(NodeAddr(H2, None, {LocalV4, LocalV6}), "HashSeq", HashB),
      BlobTicket(NodeAddr(H3, Some(Bytes(DerpUrl)), {}), "Raw", HashB) }

\* tickets as a peer may write them: a derp url in another spelling, a text
\* that is no url, a node id that is no point of the curve, a derp url whose
\* path goes up from a drive letter, a file url, a path that begins with two
\* slashes after /., a host in punycode, a host whose punycode cannot be
\* decoded, one that decodes to the replacement character, one that decodes
\* to a joiner after a letter, and file urls whose first segment goes on
\* after a drive letter, at once and after a tab
OddTickets ==
    { BlobTicket(NodeAddr(H1, Some(Bytes(DerpUrlWritten)), {}), "Raw", HashA),
      BlobTicket(NodeAddr(H1, Some(Bytes(Codes(<< "h", "t", "t", "p", ":", "/", "/", "h", "/",
                     "C", ":", "/", ".", ".", "/", "x" >>))), {}), "Raw", HashA),
      BlobTicket(NodeAddr(H1, Some(Bytes(Codes(<< "f", "i", "l", "e", ":", "/", "/", "/",
                     "t", "m", "p", "/", "x" >>))), {}), "Raw", HashA),
      BlobTicket(NodeAddr(H1, Some(Bytes(Codes(<< "f", "o", "o", ":", "/", ".", "/", "/",
                     "x" >>))), {LocalV4}), "HashSeq", HashA),
      BlobTicket(NodeAddr(H1, Some(Bytes(Codes(<< "h", "t", "t", "p", ":", "/", "/", "x", "n",
                     "-", "-", "n", "x", "a", "s", "m", "q", "6", "b", "/" >>))), {}),
                 "Raw", HashA),
      BlobTicket(NodeAddr(H1, Some(Bytes(Codes(<< "h", "t", "t", "p", ":", "/", "/", "x", "n",
                     "-", "-", "0", "/" >>))), {}), "Raw", HashA),
      BlobTicket(NodeAddr(H1, Some(Bytes(Codes(<< "h", "t", "t", "p", ":", "/", "/", "x", "n",
                     "-", "-", "z", "n", "7", "c", ".", "c", "o", "m" >>))), {LocalV4}),
                 "HashSeq", HashA),
      BlobTicket(NodeAddr(H1, Some(Bytes(Codes(<< "f", "i", "l", "e", ":", "/", "C", ":",
                     "x" >>))), {}), "Raw", HashA),
      BlobTicket(NodeAddr(H1, Some(Bytes(Codes(<< "h", "t", "t", "p", ":", "/", "/", "x", "n",
                     "-", "-", "a", "-", "u", "g", "n", "/" >>))), {}), "Raw", HashA),
      BlobTicket(NodeAddr(H1, Some(Bytes(Codes(<< "f", "i", "l", "e", ":", "/", "C", ":" >>)
                                         \o << 9 >> \o Codes(<< "x" >>))), {}),
                 "Raw", HashA),
      BlobTicket(NodeAddr(H1, Some(Bytes(Codes(<< "a" >>))), {}), "Raw", HashA),
      BlobTicket(NodeAddr(H1, Some(<<>>), {LocalV4}), "Raw", HashA),
      BlobTicket(NodeAddr(NotAPoint, None, {LocalV4}), "Raw", HashA) }

Blob == <<"b", "l", "o", "b">>

ArgStrings ==
    UNION { { HexEncode(h), ToUpperAll(HexEncode(h)),
              <<"s">> \o HexEncode(h), <<"S">> \o ToUpperAll(HexEncode(h)),
              Base32Encode(h), ToLowerAll(Base32Encode(h)),
              <<"x">> \o HexEncode(h) } : h \in ArgHashes }
    \cup UNION { { BlobTicketToString(t),
                   Blob \o Base32Encode(EncodeBlobTicket(t)),
                   ToUpperAll(BlobTicketToString(t)),
                   SubSeq(BlobTicketToString(t), 1, Len(BlobTicketToString(t)) - 1),
                   SubSeq(BlobTicketToString(t), 5, Len(BlobTicketToString(t))) }
                 : t \in ArgTickets }
    \cup { BlobTicketToString(t) : t \in OddTickets }
    \cup { Blob \o Base32Encode(EncodeBlobTicket(
               BlobTicket(NodeAddr(H1, None, {}), "Raw", HashA))),
           Blob \o Rep("a", 48), Blob, <<>>,
           Rep("g", 64), Rep("a", 63), Rep("A", 51) \o <<"B">>, Rep("1", 52) }

(***************************************************************************)
(* State.                                                                  *)
(***************************************************************************)
VARIABLES
    pc,          \* where each call stands
    call,        \* the arguments of each call
    connection,  \* each call's local `connection`: a connection of conns, or NoHandle
    stream,      \* each call's local `(send, recv)`: a stream of streams, or NoHandle
    payload,     \* each call's local `request` once encoded
    buffer,      \* what read_to_end of each call has collected
    result,      \* what each call returned
    log,         \* the operations each call has begun, in order
    conns,       \* the connections opened on the endpoint
    streams      \* the streams opened on those connections

VARIABLES
    arg,         \* the string given to ContentArg::from_str
    parsed,      \* what from_str returned for it
    address,     \* what hash_and_format returned for the parsed content
    peer         \* what host returned for the parsed content

VARIABLES
    message,     \* a Request or a Response
    wire,        \* its bytes, as postcard::to_stdvec gives them
    decoded      \* what postcard::from_bytes makes of the bytes

netVars == <<pc, call, connection, stream, payload, buffer, result, log, conns, streams>>

cliVars == <<arg, parsed, address, peer>>

wireVars == <<message, wire, decoded>>

vars == <<netVars, cliVars, wireVars>>

InFlight == {"Connecting", "OpeningStream", "Writing", "Finishing", "Reading"}

Terminal == {"Done", "Failed", "Cancelled"}

Init ==
    /\ pc = [c \in CallIds |-> "Idle"]
    /\ call = [c \in CallIds |-> NoCall]
    /\ connection = [c \in CallIds |-> NoHandle]
    /\ stream = [c \in CallIds |-> NoHandle]
    /\ payload = [c \in CallIds |-> <<>>]
    /\ buffer = [c \in CallIds |-> <<>>]
    /\ result = [c \in CallIds |-> NoResult]
    /\ log = [c \in CallIds |-> <<>>]
    /\ conns = <<>>
    /\ streams = <<>>
    /\ arg = NoResult /\ parsed = NoResult /\ address = NoResult /\ peer = NoResult
    /\ message = NoResult /\ wire = NoResult /\ decoded = NoResult

(***************************************************************************)
(* The transport: connections of the endpoint and their streams.           *)
(***************************************************************************)
\* a connection made with the protocol identifier of another protocol
NewConnectionOtherAlpn(c, tracker, alpn) ==
    [owner |-> c, tracker |-> tracker, alpn |-> "n0/tracker/0", open |-> TRUE]

NewConnection(c, tracker, alpn) ==
    [owner |-> c, tracker |-> tracker, alpn |-> alpn, open |-> TRUE]

\* a connect that takes an open connection to the same tracker when there is one
ConnectPooled(cs, c, tracker, alpn) ==
    LET open == {i \in DOMAIN cs : cs[i].open /\ cs[i].tracker = tracker}
        id == <<c, Cardinality({i \in DOMAIN cs : cs[i].owner = c}) + 1>>
    IN  IF open # {} THEN [id |-> CHOOSE i \in open : TRUE, conns |-> cs]
        ELSE [id |-> id, conns |-> cs @@ (id :> NewConnection(c, tracker, alpn))]

\* endpoint.connect_by_node_id(&tracker, alpn) by call c: a connection that did
\* not exist, named by the call and the number of connections it has opened
Connect(cs, c, tracker, alpn) ==
    LET id == <<c, Cardinality({i \in DOMAIN cs : cs[i].owner = c}) + 1>>
    IN  [id |-> id, conns |-> cs @@ (id :> NewConnection(c, tracker, alpn))]

\* a stream of a connection, as open_bi gives it
\*   up, upFin:      the bytes written to the send side, and its half-close
\*   down, downFin:  the chunks the tracker sent that are not read yet, and its close
\*   reply, sent, chunks: which of Responses the tracker answers with (0: not
\*                   decided), the bytes of it sent so far, and in how many chunks
NewStream(conn) ==
    [conn |-> conn, open |-> TRUE, up |-> <<>>, upFin |-> FALSE,
     down |-> <<>>, downFin |-> FALSE, reply |-> 0, sent |-> 0, chunks |-> 0]

\* connection.open_bi(): a stream that did not exist, named by its connection
\* and the number of streams opened on it
OpenBi(ss, conn) ==
    LET id == <<conn, Cardinality({i \in DOMAIN ss : ss[i].conn = conn}) + 1>>
    IN  [id |-> id, streams |-> ss @@ (id :> NewStream(conn))]

\* a connection that stays open when its handle is dropped
CloseConnLeak(cs, i) == cs

\* dropping the last handle of a connection closes it
CloseConn(cs, i) == IF i = NoHandle THEN cs ELSE [cs EXCEPT ![i].open = FALSE]

\* dropping the handles of a stream closes it: nothing of it is kept
CloseStream(ss, i) ==
    IF i = NoHandle THEN ss
    ELSE [ss EXCEPT ![i] = [NewStream(ss[i].conn) EXCEPT !.open = FALSE]]

\* the bytes a write may accept: all that is left, or one chunk of it
WriteSizes(rem) == {rem} \cup {n \in {WriteChunk} : n < rem}

\* a write in the place of write_all: over after the first write
WriteAllDoneFirstWrite(up, bytes) == up # <<>>

\* send.write_all(&request) is over when every byte is written
WriteAllDone(up, bytes) == up = bytes

ReplyTooLong == [too_long |-> TRUE, buf |-> <<>>]

\* a read without a limit: every chunk is kept
ReadToEndChunkUnbounded(buf, chunk, size_limit) ==
    [too_long |-> FALSE, buf |-> Cat(buf, chunk)]

\* a read that keeps the first size_limit bytes and drops the rest
ReadToEndChunkTruncating(buf, chunk, size_limit) ==
    [too_long |-> FALSE, buf |-> Take(Cat(buf, chunk), size_limit)]

\* recv.read_to_end(size_limit), one chunk: an error and nothing kept when the
\* chunk ends beyond the limit, the chunk kept otherwise
ReadToEndChunk(buf, chunk, size_limit) ==
    IF Size(buf) + Size(chunk) > size_limit THEN ReplyTooLong
    ELSE [too_long |-> FALSE, buf |-> Cat(buf, chunk)]

\* a read that also ends once size_limit bytes are held
ReadToEndDoneAtLimit(s, buf, size_limit) ==
    \/ s.down = <<>> /\ s.downFin
    \/ Size(buf) >= size_limit

\* a read that waits for a first byte even after the tracker closed
ReadToEndDoneNonEmpty(s, buf, size_limit) == s.down = <<>> /\ s.downFin /\ buf # <<>>

\* recv.read_to_end(size_limit) returns Ok when the stream is finished and
\* every chunk of it was read, whatever the size held
ReadToEndDone(s, buf, size_limit) == s.down = <<>> /\ s.downFin

\* the sizes of the next chunk the tracker may send
SendSizes(rem, chunks, most) ==
    IF chunks + 1 >= most THEN {rem}
    ELSE {rem} \cup {n \in {1, REQUEST_SIZE_LIMIT} : n < rem}

\* the tracker learns of a stream from its first frame
Visible(s) == s.open /\ (s.up # <<>> \/ s.upFin)

\* everything the tracker has sent on a stream so far
SentBytes(s) == IF s.reply = 0 THEN <<>> ELSE Take(Responses[s.reply], s.sent)

(***************************************************************************)
(* announce and query.                                                     *)
(***************************************************************************)
\* Request::Announce(request) / Request::Query(request)
\* a wrap that sends every announce as a partial one
WrapRequestPartial(cl) ==
    IF cl.op = "announce"
    THEN Variant("Announce", [cl.request EXCEPT !.kind = from_complete(FALSE)])
    ELSE Variant("Query", cl.request)

\* Request::Announce(args) in announce, Request::Query(args) in query
WrapRequest(cl) ==
    Variant(IF cl.op = "announce" THEN "Announce" ELSE "Query", cl.request)

\* the operations of a call, in the order of its body
Steps(op) ==
    <<"connect_by_node_id", "open_bi", "to_stdvec", "write_all", "finish", "read_to_end">>
        \o (IF op = "query" THEN <<"from_bytes">> ELSE <<>>)

\* an announce that wants a Response it can decode
AnnounceOutcomeChecked(bytes) ==
    IF DecodeResponse(bytes).ok THEN Success("unit") ELSE Failure("DecodingError")

\* announce: the response is dropped
AnnounceOutcome(bytes) == Success("unit")

\* a query that takes bytes it cannot decode for a response without hosts
QueryOutcomeLenient(bytes) ==
    CHOOSE o \in {
        IF ~r.ok THEN Success(QueryResponse(ContentA, <<>>)) ELSE Success(r.val.body)
        : r \in {DecodeResponse(bytes)}} : TRUE

\* query: decode the response and match its variant
QueryOutcome(bytes) ==
    CHOOSE o \in {
        IF ~r.ok THEN Failure("DecodingError") ELSE Success(r.val.body)
        : r \in {DecodeResponse(bytes)}} : TRUE

\* the future is over (returned or dropped): its locals are dropped
DropLocals(c) ==
    /\ conns' = CloseConn(conns, connection[c])
    /\ streams' = CloseStream(streams, stream[c])
    /\ connection' = [connection EXCEPT ![c] = NoHandle]
    /\ stream' = [stream EXCEPT ![c] = NoHandle]
    /\ payload' = [payload EXCEPT ![c] = <<>>]
    /\ buffer' = [buffer EXCEPT ![c] = <<>>]

\* `?` on an error, or the final Ok
Return(c, res) ==
    /\ pc' = [pc EXCEPT ![c] = IF res.status = "ok" THEN "Done" ELSE "Failed"]
    /\ result' = [result EXCEPT ![c] = res]
    /\ DropLocals(c)

\* the call is made and begins to connect
Start(c, in) ==
    /\ pc[c] = "Idle"
    /\ \E cl \in in.calls : call' = [call EXCEPT ![c] = cl]
    /\ pc' = [pc EXCEPT ![c] = "Connecting"]
    /\ log' = [log EXCEPT ![c] = <<"connect_by_node_id">>]
    /\ UNCHANGED <<connection, stream, payload, buffer, result, conns, streams>>
    /\ UNCHANGED <<cliVars, wireVars>>

ConnectOk(c) ==
    /\ pc[c] = "Connecting"
    /\ LET r == Connect(conns, c, call[c].tracker, TRACKER_ALPN)
       IN  /\ conns' = r.conns
           /\ connection' = [connection EXCEPT ![c] = r.id]
    /\ pc' = [pc EXCEPT ![c] = "OpeningStream"]
    /\ log' = [log EXCEPT ![c] = Append(@, "open_bi")]
    /\ UNCHANGED <<call, stream, payload, buffer, result, streams>>
    /\ UNCHANGED <<cliVars, wireVars>>

\* a failed connect that is attempted once more
ConnectFailRetry(c) ==
    /\ pc[c] = "Connecting"
    /\ IF Len(log[c]) = 1
       THEN /\ log' = [log EXCEPT ![c] = Append(@, "connect_by_node_id")]
            /\ UNCHANGED <<pc, call, connection, stream, payload, buffer, result,
                           conns, streams>>
       ELSE /\ Return(c, Failure("ConnectionError"))
            /\ UNCHANGED <<call, log>>
    /\ UNCHANGED <<cliVars, wireVars>>

ConnectFail(c) ==
    /\ pc[c] = "Connecting"
    /\ Return(c, Failure("ConnectionError"))
    /\ UNCHANGED <<call, log>>
    /\ UNCHANGED <<cliVars, wireVars>>

\* the stream is open; the request is wrapped and encoded, and write_all begins
OpenOk(c) ==
    /\ pc[c] = "OpeningStream"
    /\ LET r == OpenBi(streams, connection[c])
       IN  /\ streams' = r.streams
           /\ stream' = [stream EXCEPT ![c] = r.id]
    /\ payload' = [payload EXCEPT ![c] = EncodeRequest(WrapRequest(call[c]))]
    /\ pc' = [pc EXCEPT ![c] = "Writing"]
    /\ log' = [log EXCEPT ![c] = @ \o <<"to_stdvec", "write_all">>]
    /\ UNCHANGED <<call, connection, buffer, result, conns>>
    /\ UNCHANGED <<cliVars, wireVars>>

OpenFail(c) ==
    /\ pc[c] = "OpeningStream"
    /\ Return(c, Failure("ConnectionError"))
    /\ UNCHANGED <<call, log>>
    /\ UNCHANGED <<cliVars, wireVars>>

\* one write of write_all; finish begins once write_all is over
WriteSome(c) ==
    /\ pc[c] = "Writing"
    /\ LET s == streams[stream[c]]
           off == Size(s.up)
       IN  \E n \in WriteSizes(Size(payload[c]) - off) :
               LET up == Cat(s.up, Slice(payload[c], off, n))
               IN  /\ streams' = [streams EXCEPT ![stream[c]].up = up]
                   /\ IF WriteAllDone(up, payload[c])
                      THEN /\ pc' = [pc EXCEPT ![c] = "Finishing"]
                           /\ log' = [log EXCEPT ![c] = Append(@, "finish")]
                      ELSE UNCHANGED <<pc, log>>
    /\ UNCHANGED <<call, connection, stream, payload, buffer, result, conns>>
    /\ UNCHANGED <<cliVars, wireVars>>

WriteFail(c) ==
    /\ pc[c] = "Writing"
    /\ Return(c, Failure("WriteError"))
    /\ UNCHANGED <<call, log>>
    /\ UNCHANGED <<cliVars, wireVars>>

\* the send side is half-closed; read_to_end begins
FinishOk(c) ==
    /\ pc[c] = "Finishing"
    /\ streams' = [streams EXCEPT ![stream[c]].upFin = TRUE]
    /\ pc' = [pc EXCEPT ![c] = "Reading"]
    /\ log' = [log EXCEPT ![c] = Append(@, "read_to_end")]
    /\ UNCHANGED <<call, connection, stream, payload, buffer, result, conns>>
    /\ UNCHANGED <<cliVars, wireVars>>

FinishFail(c) ==
    /\ pc[c] = "Finishing"
    /\ Return(c, Failure("WriteError"))
    /\ UNCHANGED <<call, log>>
    /\ UNCHANGED <<cliVars, wireVars>>

\* read_to_end takes the next chunk
ReadChunk(c) ==
    /\ pc[c] = "Reading"
    /\ streams[stream[c]].down # <<>>
    /\ LET r == ReadToEndChunk(buffer[c], Head(streams[stream[c]].down),
                               REQUEST_SIZE_LIMIT)
       IN  IF r.too_long
           THEN /\ Return(c, Failure("ResponseTooLarge"))
                /\ UNCHANGED <<call, log>>
           ELSE /\ buffer' = [buffer EXCEPT ![c] = r.buf]
                /\ streams' = [streams EXCEPT ![stream[c]].down = Tail(@)]
                /\ UNCHANGED <<pc, call, connection, stream, payload, result, log, conns>>
    /\ UNCHANGED <<cliVars, wireVars>>

\* a query that wants the response to be about the content it asked for
ReadEndMatching(c) ==
    /\ pc[c] = "Reading"
    /\ ReadToEndDone(streams[stream[c]], buffer[c], REQUEST_SIZE_LIMIT)
    /\ IF call[c].op = "announce"
       THEN /\ Return(c, AnnounceOutcome(buffer[c]))
            /\ UNCHANGED log
       ELSE /\ Return(c, IF /\ QueryOutcome(buffer[c]).status = "ok"
                            /\ QueryOutcome(buffer[c]).value.content # call[c].request.content
                         THEN Failure("DecodingError")
                         ELSE QueryOutcome(buffer[c]))
            /\ log' = [log EXCEPT ![c] = Append(@, "from_bytes")]
    /\ UNCHANGED call
    /\ UNCHANGED <<cliVars, wireVars>>

\* read_to_end returns the response; the call returns what it makes of it
ReadEnd(c) ==
    /\ pc[c] = "Reading"
    /\ ReadToEndDone(streams[stream[c]], buffer[c], REQUEST_SIZE_LIMIT)
    /\ IF call[c].op = "announce"
       THEN /\ Return(c, AnnounceOutcome(buffer[c]))
            /\ UNCHANGED log
       ELSE /\ Return(c, QueryOutcome(buffer[c]))
            /\ log' = [log EXCEPT ![c] = Append(@, "from_bytes")]
    /\ UNCHANGED call
    /\ UNCHANGED <<cliVars, wireVars>>

ReadFail(c) ==
    /\ pc[c] = "Reading"
    /\ Return(c, Failure("ReadError"))
    /\ UNCHANGED <<call, log>>
    /\ UNCHANGED <<cliVars, wireVars>>

\* the caller drops the future of a call in flight
Cancel(c) ==
    /\ pc[c] \in InFlight
    /\ pc' = [pc EXCEPT ![c] = "Cancelled"]
    /\ DropLocals(c)
    /\ UNCHANGED <<call, result, log>>
    /\ UNCHANGED <<cliVars, wireVars>>

(***************************************************************************)
(* The tracker, on the stream of a call.                                   *)
(***************************************************************************)
TrackerReply(c, in) ==
    /\ stream[c] # NoHandle
    /\ Visible(streams[stream[c]])
    /\ streams[stream[c]].reply = 0
    /\ \E r \in in.replies : streams' = [streams EXCEPT ![stream[c]].reply = r]
    /\ UNCHANGED <<pc, call, connection, stream, payload, buffer, result, log, conns>>
    /\ UNCHANGED <<cliVars, wireVars>>

TrackerSend(c, in) ==
    /\ stream[c] # NoHandle
    /\ LET s == streams[stream[c]]
       IN  /\ s.open /\ s.reply # 0 /\ ~s.downFin
           /\ s.sent < Size(Responses[s.reply])
           /\ \E n \in SendSizes(Size(Responses[s.reply]) - s.sent, s.chunks, in.chunks) :
                  streams' = [streams EXCEPT
                      ![stream[c]].down =
                          Append(@, Slice(Responses[s.reply], s.sent, n)),
                      ![stream[c]].sent = @ + n,
                      ![stream[c]].chunks = @ + 1]
    /\ UNCHANGED <<pc, call, connection, stream, payload, buffer, result, log, conns>>
    /\ UNCHANGED <<cliVars, wireVars>>

TrackerClose(c) ==
    /\ stream[c] # NoHandle
    /\ LET s == streams[stream[c]]
       IN  /\ s.open /\ s.reply # 0 /\ ~s.downFin
           /\ s.sent = Size(Responses[s.reply])
    /\ streams' = [streams EXCEPT ![stream[c]].downFin = TRUE]
    /\ UNCHANGED <<pc, call, connection, stream, payload, buffer, result, log, conns>>
    /\ UNCHANGED <<cliVars, wireVars>>

(***************************************************************************)
(* The command line reads a content argument and resolves it.              *)
(***************************************************************************)
\* clap gives the string to ContentArg::from_str
ParseArg ==
    /\ arg = NoResult
    /\ \E s \in ArgStrings :
           /\ arg' = Success(s)
           /\ parsed' = from_str(s)
    /\ UNCHANGED <<address, peer, netVars, wireVars>>

\* content.hash_and_format()
ResolveAddress ==
    /\ parsed.status = "ok"
    /\ address = NoResult
    /\ address' = Success(hash_and_format(parsed.value))
    /\ UNCHANGED <<arg, parsed, peer, netVars, wireVars>>

\* content.host()
ResolveHost ==
    /\ parsed.status = "ok"
    /\ peer = NoResult
    /\ peer' = Success(host(parsed.value))
    /\ UNCHANGED <<arg, parsed, address, netVars, wireVars>>

(***************************************************************************)
(* Specifications.                                                         *)
(***************************************************************************)
\* the steps of a call that end with success
Progress(c, in) ==
    \/ Start(c, in)
    \/ ConnectOk(c)
    \/ OpenOk(c)
    \/ WriteSome(c)
    \/ FinishOk(c)
    \/ ReadChunk(c)
    \/ ReadEnd(c)

\* the transport fails under a call
Fault(c) ==
    \/ ConnectFail(c)
    \/ OpenFail(c)
    \/ WriteFail(c)
    \/ FinishFail(c)
    \/ ReadFail(c)

Tracker(c, in) ==
    \/ TrackerReply(c, in)
    \/ TrackerSend(c, in)
    \/ TrackerClose(c)

\* one call, on every input
Next ==
    \/ Progress(1, Inputs1)
    \/ Fault(1)
    \/ Tracker(1, Inputs1)
    \/ Cancel(1)

Spec == Init /\ [][Next]_vars

\* calls in flight at the same time
NextN ==
    \E c \in CallIds :
        \/ Progress(c, InputsN)
        \/ Fault(c)
        \/ Tracker(c, InputsN)
        \/ Cancel(c)

SpecN == Init /\ [][NextN]_vars

\* one call that is awaited to its end: every await that can complete does, and
\* the tracker goes on to answer and to close its side of the stream
NextLive ==
    \/ Progress(1, Inputs1)
    \/ Fault(1)
    \/ Tracker(1, Inputs1)

SpecLive ==
    /\ Init
    /\ [][NextLive]_vars
    /\ WF_vars(Progress(1, Inputs1))
    /\ WF_vars(Tracker(1, Inputs1))

\* one content argument, on every string
\* postcard::to_stdvec of a Request, as the caller does, or of a Response, as
\* the tracker does
EncodeMessage ==
    /\ message = NoResult
    /\ \/ \E req \in Requests :
            /\ message' = Success([type |-> "Request", value |-> req])
            /\ wire' = Success(EncodeRequest(req))
       \/ \E resp \in ResponsesOut :
            /\ message' = Success([type |-> "Response", value |-> resp])
            /\ wire' = Success(EncodeResponse(resp))
    /\ UNCHANGED <<decoded, netVars, cliVars>>

\* postcard::from_bytes of the bytes, as the type the receiver expects
DecodeMessage ==
    /\ wire # NoResult /\ decoded = NoResult
    /\ \E d \in {IF message.value.type = "Request" THEN DecodeRequest(wire.value)
                 ELSE DecodeResponse(wire.value)} :
            decoded' = IF d.ok THEN Success(d.val) ELSE Failure("decode")
    /\ UNCHANGED <<message, wire, netVars, cliVars>>

NextCodec == EncodeMessage \/ DecodeMessage

SpecCodec == Init /\ [][NextCodec]_vars

NextArgs ==
    \/ ParseArg
    \/ ResolveAddress
    \/ ResolveHost

SpecArgs == Init /\ [][NextArgs]_vars

(***************************************************************************)
(* Properties.                                                             *)
(***************************************************************************)
Last(s) == s[Len(s)]

IsPrefix(a, b) == Len(a) <= Len(b) /\ a = SubSeq(b, 1, Len(a))

Began(c, step) == \E i \in 1..Len(log[c]) : log[c][i] = step

\* the stream of call c, while the call holds one
HasStream(c) == stream[c] # NoHandle

StreamOf(c) == streams[stream[c]]

\* call c returns in this step
Returns(c) == pc[c] \in InFlight /\ pc'[c] \in {"Done", "Failed"}

\* every chunk the tracker sent was read and its side of the stream is closed
AllRead(c) ==
    /\ HasStream(c)
    /\ StreamOf(c).downFin
    /\ StreamOf(c).down = <<>>
    /\ StreamOf(c).reply # 0
    /\ StreamOf(c).sent = Size(Responses[StreamOf(c).reply])
    /\ buffer[c] = Responses[StreamOf(c).reply]

C1_State ==
    \A c \in CallIds :
        /\ call[c] # NoCall => IsPrefix(log[c], Steps(call[c].op))
        /\ pc[c] = "Done" => log[c] = Steps(call[c].op)
        /\ HasStream(c) =>
              /\ conns[connection[c]].open /\ StreamOf(c).conn = connection[c]
              /\ buffer[c] # <<>> => StreamOf(c).upFin
              /\ StreamOf(c).upFin => StreamOf(c).up = EncodeRequest(WrapRequest(call[c]))
              /\ Began(c, "finish") => StreamOf(c).up = EncodeRequest(WrapRequest(call[c]))
              /\ Began(c, "read_to_end") <=> StreamOf(c).upFin

C1_Step ==
    \A c \in CallIds :
        (pc[c] # "Done" /\ pc'[c] = "Done") => (pc[c] = "Reading" /\ AllRead(c))

\* C1: the operations of a call happen in the order connect, open one stream,
\* write the whole encoded request, half-close, read: no response byte is read
\* before the half-close, the half-close comes only after the whole request is
\* written, and success is returned only once the read has completed
C1_ExchangeOrder == []C1_State /\ [][C1_Step]_vars

\* a query that went through every step and returned success
C1_Witness ==
    /\ pc[1] = "Done"
    /\ call[1].op = "query"
    /\ log[1] = Steps("query")

\* what the tracker has sent on the stream of call c
Sent(c) == SentBytes(StreamOf(c))

C2_Step ==
    \A c \in CallIds :
        (HasStream(c) /\ Size(Sent(c)) > 16384) =>
            /\ pc'[c] # "Done"
            /\ result'[c].status # "ok"
            /\ Returns(c) => result'[c].error # "DecodingError"
            /\ (Returns(c) /\ pc[c] = "Reading") =>
                   result'[c] \in {Failure("ResponseTooLarge"), Failure("ReadError")}
            /\ (pc[c] = "Reading" /\ pc'[c] = "Reading") => Size(buffer'[c]) <= 16384

\* C2: once the tracker has sent more than 16384 bytes on the stream of an
\* announce or a query, the call never returns success (nor a decoding error
\* computed from a prefix): its read ends with the response-too-large error,
\* unless the transport fails first
C2_TooLargeFails == [][C2_Step]_vars

\* a query answered with 16385 bytes that begin with a valid Response has failed
\* with the response-too-large error
C2_Witness ==
    /\ pc[1] = "Failed"
    /\ call[1].op = "query"
    /\ result[1] = Failure("ResponseTooLarge")

\* C3 as claimed: a call that holds exactly 16384 response bytes has stopped reading
C3_StopsAtLimit ==
    \A c \in CallIds : Size(buffer[c]) >= 16384 => pc[c] # "Reading"

C3_Step ==
    \A c \in CallIds :
        (pc[c] = "Reading" /\ pc'[c] # "Reading") =>
            \/ pc'[c] = "Cancelled"
            \/ result'[c] = Failure("ReadError")
            \/ /\ StreamOf(c).down = <<>> /\ StreamOf(c).downFin
               /\ Size(buffer[c]) <= 16384
               /\ result'[c] # Failure("ResponseTooLarge")
            \/ /\ StreamOf(c).down # <<>>
               /\ Size(buffer[c]) + Size(Head(StreamOf(c).down)) > 16384
               /\ result'[c] = Failure("ResponseTooLarge")

\* C3 (amended): the read of a call ends when the tracker has closed its side and
\* every byte it sent is read, or when a chunk takes the bytes read beyond 16384
\* (the response-too-large error), whichever comes first; with exactly 16384
\* bytes read and the stream not closed the call goes on reading
C3_ReadEnds == [][C3_Step]_vars

\* the call holds exactly 16384 bytes, the tracker has not closed, and the call
\* is still in read_to_end
C3_Witness ==
    /\ pc[1] = "Reading"
    /\ Size(buffer[1]) = 16384
    /\ ~StreamOf(1).downFin

C4_Step ==
    \A c \in CallIds :
        (call[c].op = "query" /\ Returns(c)) =>
            /\ pc'[c] = "Done" =>
                  /\ pc[c] = "Reading" /\ AllRead(c)
                  /\ Sent(c) # <<>> /\ First(Sent(c)) = 0
                  /\ DecodeResponse(Sent(c)).ok
                  /\ DecodeResponse(Sent(c)).val.tag = "QueryResponse"
                  /\ result'[c] = Success(DecodeResponse(Sent(c)).val.body)
            /\ (Last(log'[c]) = "from_bytes" /\ Sent(c) = <<>>) =>
                  result'[c] = Failure("DecodingError")
            /\ (Last(log'[c]) = "from_bytes" /\ Sent(c) # <<>> /\ First(Sent(c)) # 0) =>
                  result'[c] = Failure("DecodingError")
            /\ (Last(log'[c]) = "from_bytes" /\ ~DecodeResponse(Sent(c)).ok) =>
                  result'[c] = Failure("DecodingError")

\* C4: query returns success only when everything the tracker sent was read and
\* decodes to a Response of variant QueryResponse, and then returns exactly the
\* decoded QueryResponse; bytes that do not decode (no byte at all, an unknown
\* variant tag, a cut value) make it fail with the decoding error and no value
C4_QueryDecodes == [][C4_Step]_vars

\* a query has failed with the decoding error
C4_Witness ==
    /\ pc[1] = "Failed"
    /\ call[1].op = "query"
    /\ result[1] = Failure("DecodingError")
    /\ Last(log[1]) = "from_bytes"

C5_Step ==
    \A c \in CallIds : \A i \in 1..Len(SampleQueryResponses) :
        ( /\ call[c].op = "query"
          /\ pc[c] = "Reading" /\ pc'[c] = "Done"
          /\ Take(Sent(c), Size(ValidResponse(i))) = ValidResponse(i) ) =>
            /\ result'[c].value.content = SampleQueryResponses[i].content
            /\ Len(result'[c].value.hosts) = Len(SampleQueryResponses[i].hosts)
            /\ \A k \in 1..Len(SampleQueryResponses[i].hosts) :
                   result'[c].value.hosts[k] = SampleQueryResponses[i].hosts[k]

\* C5: the QueryResponse query returns has the hosts the tracker encoded: as
\* many, the same at each position, duplicates kept, with the content it sent
C5_HostsPreserved == [][C5_Step]_vars

\* a query answered with hosts [H2, H1, H2] for content B has returned them so
C5_Witness ==
    /\ pc[1] = "Done"
    /\ call[1].op = "query"
    /\ result[1] = Success(QueryResponse(ContentB, <<H2, H1, H2>>))

C6_Step ==
    \A c \in CallIds :
        call[c].op = "announce" =>
            /\ (pc[c] # "Done" /\ pc'[c] = "Done") =>
                  /\ pc[c] = "Reading" /\ AllRead(c)
                  /\ log[c] = Steps("announce") /\ log'[c] = log[c]
                  /\ Size(Sent(c)) <= 16384
                  /\ result'[c] = Success("unit")
            /\ (pc[c] = "Reading" /\ AllRead(c) /\ Returns(c)) =>
                  (pc'[c] = "Done" \/ result'[c] = Failure("ReadError"))
            /\ Returns(c) => result'[c] # Failure("DecodingError")

\* C6: announce returns success exactly when connect, open, encode, write,
\* half-close and the bounded read have all completed: a completed read is
\* followed by success whatever the bytes are (none, or no valid Response), and
\* announce never fails with a decoding error
C6_AnnounceIgnoresResponse == [][C6_Step]_vars

\* an announce has read all of a response that is no valid Response, and its
\* next step returns success
C6_Witness ==
    /\ pc[1] = "Reading"
    /\ call[1].op = "announce"
    /\ AllRead(1)
    /\ ~DecodeResponse(buffer[1]).ok
    /\ ENABLED (ReadEnd(1) /\ pc'[1] = "Done")

\* the errors a step can fail with
ErrorsOf(step) ==
    CASE step = "connect_by_node_id" -> {"ConnectionError"}
      [] step = "open_bi" -> {"ConnectionError"}
      [] step = "write_all" -> {"WriteError"}
      [] step = "finish" -> {"WriteError"}
      [] step = "read_to_end" -> {"ReadError", "ResponseTooLarge"}
      [] step = "from_bytes" -> {"DecodingError"}
      [] OTHER -> {}

\* the connections call c has opened, and the streams opened on them
ConnsOf(c) == {i \in DOMAIN conns : conns[i].owner = c}

StreamsOf(c) == {i \in DOMAIN streams : streams[i].conn \in ConnsOf(c)}

\* nothing of call c changes in this step
Untouched(c) ==
    /\ pc'[c] = pc[c] /\ call'[c] = call[c] /\ log'[c] = log[c]
    /\ result'[c] = result[c]
    /\ connection'[c] = connection[c] /\ stream'[c] = stream[c]
    /\ payload'[c] = payload[c] /\ buffer'[c] = buffer[c]
    /\ \A i \in ConnsOf(c) : i \in DOMAIN conns' /\ conns'[i] = conns[i]
    /\ \A i \in StreamsOf(c) : i \in DOMAIN streams' /\ streams'[i] = streams[i]
    /\ \A i \in DOMAIN conns' : conns'[i].owner = c => i \in DOMAIN conns
    /\ \A i \in DOMAIN streams' : i \in DOMAIN streams \/ streams'[i].conn \notin ConnsOf(c)

C7_State ==
    \A c \in CallIds :
        /\ \A i, j \in 1..Len(log[c]) : log[c][i] = log[c][j] => i = j
        /\ Cardinality(ConnsOf(c)) <= 1
        /\ Cardinality(StreamsOf(c)) <= 1
        /\ pc[c] = "Failed" =>
              /\ result[c].status = "err"
              /\ result[c].error \in ErrorsOf(Last(log[c]))

C7_Step ==
    \A c \in CallIds :
        /\ (pc[c] # "Failed" /\ pc'[c] = "Failed") =>
              /\ pc[c] \in InFlight
              /\ log'[c] = log[c] \/ log'[c] = Append(log[c], "from_bytes")
              /\ ConnsOf(c)' = ConnsOf(c) /\ StreamsOf(c)' = StreamsOf(c)
              /\ \A i \in ConnsOf(c) : ~conns'[i].open
              /\ \A i \in StreamsOf(c) : ~streams'[i].open
        /\ (pc[c] \in InFlight /\ pc'[c] \in InFlight /\ log'[c] # log[c]) =>
              /\ Len(log'[c]) > Len(log[c])
              /\ SubSeq(log'[c], 1, Len(log[c])) = log[c]
        /\ pc[c] = "Failed" => Untouched(c)

\* C7: a call that fails returns the error of the step that failed, the last one
\* it began: the failing step begins no other, a step is begun at most once, a
\* call opens at most one connection and one stream, and a failed call does
\* nothing more
C7_FailsDirectly == []C7_State /\ [][C7_Step]_vars

\* a call has failed on its half-close, with the write error
C7_Witness ==
    /\ pc[1] = "Failed"
    /\ Last(log[1]) = "finish"
    /\ result[1] = Failure("WriteError")
    /\ Cardinality(ConnsOf(1)) = 1 /\ Cardinality(StreamsOf(1)) = 1

C8_Step ==
    \A c \in CallIds : pc[c] \in {"Done", "Failed"} => Untouched(c)

\* C8: a call that was made and is awaited reaches Done or Failed, when every
\* await that can complete does and the tracker goes on to answer and to close
\* its side; a call in Done or Failed changes nothing any more
C8_Terminates ==
    /\ \A c \in CallIds : (pc[c] # "Idle") ~> (pc[c] \in {"Done", "Failed"})
    /\ [][C8_Step]_vars

\* an announce answered with no byte at all has returned
C8_Witness ==
    /\ pc[1] = "Done"
    /\ call[1].op = "announce"
    /\ \E i \in StreamsOf(1) : ~streams[i].open
    /\ log[1] = Steps("announce")

C9_State ==
    \A c \in CallIds :
        /\ connection[c] # NoHandle =>
              /\ connection[c] \in ConnsOf(c)
              /\ \A d \in CallIds \ {c} : connection[d] # connection[c]
        /\ stream[c] # NoHandle =>
              /\ stream[c] \in StreamsOf(c)
              /\ \A d \in CallIds \ {c} : stream[d] # stream[c]

C9_Step ==
    /\ \E c \in CallIds : \A d \in CallIds \ {c} : Untouched(d)
    /\ \A c \in CallIds :
          Returns(c) =>
              /\ pc'[c] = "Done" =>
                    result'[c] = IF call[c].op = "announce" THEN Success("unit")
                                 ELSE Success(DecodeResponse(Sent(c)).val.body)
              /\ result'[c] = Failure("DecodingError") =>
                    (call[c].op = "query" /\ ~DecodeResponse(Sent(c)).ok)
              /\ result'[c] = Failure("ResponseTooLarge") => Size(Sent(c)) > 16384

\* C9: with calls in flight at the same time, each holds a connection and a
\* stream of its own that no other call holds, every step changes the state of
\* one call only (its locals, its connection, its stream), and what a call
\* returns is decided by its own request and the bytes sent on its own stream
C9_CallsIndependent == []C9_State /\ [][C9_Step]_vars

\* two calls with the same request have read, each on its own stream, different
\* responses
C9_Witness ==
    /\ pc[1] = "Reading" /\ pc[2] = "Reading"
    /\ call[1] = call[2]
    /\ AllRead(1) /\ AllRead(2)
    /\ buffer[1] # buffer[2]
    /\ connection[1] # connection[2] /\ stream[1] # stream[2]

C10_State ==
    \A c \in CallIds :
        pc[c] = "Cancelled" =>
            /\ connection[c] = NoHandle /\ stream[c] = NoHandle
            /\ \A i \in ConnsOf(c) : ~conns[i].open
            /\ \A i \in StreamsOf(c) : ~streams[i].open
            /\ result[c] = NoResult

C10_Step ==
    \A c \in CallIds :
        /\ pc[c] = "Cancelled" => Untouched(c)
        /\ pc'[c] = "Cancelled" => pc[c] \in InFlight \cup {"Cancelled"}

\* C10: a call cancelled while in flight leaves no connection and no stream it
\* opened open, returns nothing, and changes nothing any more
C10_CancelReleases == []C10_State /\ [][C10_Step]_vars

\* a call was cancelled while it awaited the response
C10_Witness ==
    /\ pc[1] = "Cancelled"
    /\ Last(log[1]) = "read_to_end"
    /\ Cardinality(ConnsOf(1)) = 1 /\ Cardinality(StreamsOf(1)) = 1

C11_State ==
    arg # NoResult =>
        /\ HashFromStr(arg.value).ok =>
              /\ parsed = Success(Variant("Hash", HashFromStr(arg.value).val))
              /\ address # NoResult => address.value.format = "Raw"
        /\ (~HashFromStr(arg.value).ok /\ HashAndFormatFromStr(arg.value).ok) =>
              parsed = Success(Variant("HashAndFormat",
                                        HashAndFormatFromStr(arg.value).val))
        /\ ( /\ ~HashFromStr(arg.value).ok /\ ~HashAndFormatFromStr(arg.value).ok
             /\ BlobTicketFromStr(arg.value).ok ) =>
              parsed = Success(Variant("Ticket", BlobTicketFromStr(arg.value).val))

\* C11: from_str gives the first of Hash, HashAndFormat and Ticket that reads
\* the string: a string that reads as a Hash gives the Hash (resolved with
\* format Raw) also when it reads as a HashAndFormat or a Ticket, and one that
\* reads as a HashAndFormat and not as a Hash gives the HashAndFormat
C11_FirstFormWins == []C11_State

\* 64 hex digits, which read both as a Hash and as a HashAndFormat, were parsed
\* as a Hash and resolved with format Raw
C11_Witness ==
    /\ arg # NoResult
    /\ HashFromStr(arg.value).ok /\ HashAndFormatFromStr(arg.value).ok
    /\ parsed.status = "ok" /\ parsed.value.tag = "Hash"
    /\ address = Success(HashAndFormat(HashA, "Raw"))

\* the string reads as none of the three forms
ReadsAsNone(text) ==
    /\ ~HashFromStr(text).ok
    /\ ~HashAndFormatFromStr(text).ok
    /\ ~BlobTicketFromStr(text).ok

C12_State ==
    arg # NoResult =>
        /\ parsed.status \in {"ok", "err"}
        /\ parsed.status = "err" <=> ReadsAsNone(arg.value)
        /\ parsed.status = "err" =>
              /\ parsed = Failure("invalid hash and format")
              /\ address = NoResult /\ peer = NoResult
        /\ parsed.status = "ok" =>
              parsed.value.tag \in {"Hash", "HashAndFormat", "Ticket"}

\* C12: from_str fails, and gives no content to resolve, exactly when the
\* string reads as none of Hash, HashAndFormat and Ticket
C12_FailsWhenNoneReads == []C12_State

\* a ticket cut by one character was given, and from_str failed
C12_Witness ==
    /\ arg # NoResult
    /\ Len(arg.value) > 64 /\ SubSeq(arg.value, 1, 4) = Blob
    /\ parsed = Failure("invalid hash and format")

C13_State ==
    (parsed.status = "ok" /\ address # NoResult) =>
        /\ parsed.value.tag = "Hash" =>
              address = Success(HashAndFormat(parsed.value.body, "Raw"))
        /\ parsed.value.tag = "HashAndFormat" =>
              address = Success(parsed.value.body)
        /\ parsed.value.tag = "Ticket" =>
              address = Success(HashAndFormat(parsed.value.body.hash,
                                              parsed.value.body.format))

C13_Step ==
    /\ address # NoResult => address' = address
    /\ address' # address => UNCHANGED <<arg, parsed, peer>>

\* C13: hash_and_format gives one address for a content, and the same whenever
\* asked: (h, Raw) for a Hash h, the value itself for a HashAndFormat, and
\* (ticket.hash, ticket.format) for a Ticket; it changes nothing else
C13_ResolvesAddress == []C13_State /\ [][C13_Step]_vars

\* a ticket for a hash sequence was resolved to its hash with format HashSeq
C13_Witness ==
    /\ parsed.status = "ok" /\ parsed.value.tag = "Ticket"
    /\ address = Success(HashAndFormat(HashB, "HashSeq"))

C14_State ==
    (parsed.status = "ok" /\ peer # NoResult) =>
        /\ parsed.value.tag \in {"Hash", "HashAndFormat"} => peer = Success(None)
        /\ parsed.value.tag = "Ticket" =>
              peer = Success(Some(parsed.value.body.node.node_id))

\* C14: host gives the node id of the ticket for a Ticket, and None for every
\* Hash and every HashAndFormat
C14_HostOfTicketOnly == []C14_State

\* the ticket of node H2 was given, and host returned H2
C14_Witness ==
    /\ arg # NoResult
    /\ BlobTicketFromStr(arg.value).ok
    /\ BlobTicketFromStr(arg.value).val.node.node_id = H2
    /\ peer = Success(Some(H2))

C15_State ==
    /\ wire # NoResult =>
          /\ message.value.type = "Request" =>
                /\ DecodeRequest(wire.value).ok
                /\ DecodeRequest(wire.value).val = message.value.value
                /\ DecodeRequest(wire.value).rest = <<>>
          /\ message.value.type = "Response" =>
                /\ DecodeResponse(wire.value).ok
                /\ DecodeResponse(wire.value).val = message.value.value
                /\ DecodeResponse(wire.value).rest = <<>>
    /\ decoded # NoResult =>
          /\ decoded = Success(message.value.value)
          /\ decoded.value.tag = message.value.value.tag
          /\ decoded.value.tag = "Announce" =>
                /\ decoded.value.body.kind = message.value.value.body.kind
                /\ decoded.value.body.content = message.value.value.body.content
          /\ decoded.value.tag = "Query" =>
                decoded.value.body.flags = message.value.value.body.flags
          /\ decoded.value.tag = "QueryResponse" =>
                decoded.value.body.hosts = message.value.value.body.hosts

\* C15: decoding the encoding of a Request or of a Response gives the value
\* that was encoded: the same variant, Announce kind, content set, query
\* flags and hosts sequence, with no byte left over
C15_RoundTrip == []C15_State

\* a Complete announce of two content addresses came back as it was
C15_Witness ==
    /\ message # NoResult /\ message.value.type = "Request"
    /\ message.value.value.tag = "Announce"
    /\ message.value.value.body.kind = "Complete"
    /\ message.value.value.body.content = {ContentA, ContentB}
    /\ decoded = Success(message.value.value)

C16_State ==
    /\ TRACKER_ALPN = "n0/tracker/1"
    /\ REQUEST_SIZE_LIMIT = 16384
    /\ \A i \in DOMAIN conns :
          /\ conns[i].owner \in CallIds
          /\ conns[i].alpn = "n0/tracker/1"
          /\ conns[i].tracker = call[conns[i].owner].tracker
    /\ \A c \in CallIds :
          /\ Cardinality(ConnsOf(c)) <= 1
          /\ Cardinality(StreamsOf(c)) <= 1
          /\ Began(c, "open_bi") <=> Cardinality(ConnsOf(c)) = 1
          /\ Began(c, "write_all") <=> Cardinality(StreamsOf(c)) = 1
          /\ connection[c] # NoHandle => ConnsOf(c) = {connection[c]}
          /\ stream[c] # NoHandle =>
                /\ StreamsOf(c) = {stream[c]}
                /\ streams[stream[c]].conn = connection[c]

C16_Step ==
    /\ DOMAIN conns \subseteq DOMAIN conns'
    /\ DOMAIN streams \subseteq DOMAIN streams'
    /\ \A i \in DOMAIN conns :
          /\ conns'[i].owner = conns[i].owner
          /\ conns'[i].tracker = conns[i].tracker
          /\ conns'[i].alpn = conns[i].alpn
    /\ \A i \in DOMAIN streams : streams'[i].conn = streams[i].conn
    /\ \A c \in CallIds :
          /\ connection'[c] # connection[c] =>
                \/ connection'[c] = NoHandle
                \/ /\ connection[c] = NoHandle
                   /\ connection'[c] \notin DOMAIN conns
                   /\ DOMAIN conns' = DOMAIN conns \cup {connection'[c]}
                   /\ conns'[connection'[c]].open
          /\ stream'[c] # stream[c] =>
                \/ stream'[c] = NoHandle
                \/ /\ stream[c] = NoHandle
                   /\ stream'[c] \notin DOMAIN streams
                   /\ DOMAIN streams' = DOMAIN streams \cup {stream'[c]}
                   /\ streams'[stream'[c]].conn = connection[c]

\* C16: a call opens one connection, which did not exist before, to the tracker
\* it was given and with the protocol identifier "n0/tracker/1", and one stream,
\* which did not exist before, on that connection; it holds no connection and
\* no stream of another call; the identifier and the limit of 16384 are fixed
C16_OneConnectionOneStream == []C16_State /\ [][C16_Step]_vars

\* two calls to the same tracker are in flight, each on a connection and a
\* stream of its own
C16_Witness ==
    /\ pc[1] = "Reading" /\ pc[2] = "Writing"
    /\ call[1].tracker = call[2].tracker
    /\ connection[1] # connection[2] /\ stream[1] # stream[2]
    /\ Cardinality(DOMAIN conns) = 2 /\ Cardinality(DOMAIN streams) = 2
    /\ \A i \in DOMAIN conns : conns[i].open /\ conns[i].alpn = TRACKER_ALPN

\* the Request call c was made to send: the caller's value under the variant of
\* the function called
C17_Request(c) ==
    [tag |-> IF call[c].op = "announce" THEN "Announce" ELSE "Query",
     body |-> call[c].request]

C17_State ==
    \A c \in CallIds :
        HasStream(c) =>
            /\ payload[c] = EncodeRequest(C17_Request(c))
            /\ DecodeRequest(payload[c]) = Parsed(C17_Request(c), <<>>)
            /\ Size(StreamOf(c).up) <= Size(payload[c])
            /\ Take(payload[c], Size(StreamOf(c).up)) = StreamOf(c).up
            /\ StreamOf(c).upFin => StreamOf(c).up = payload[c]

C17_Step ==
    \A c \in CallIds :
        /\ (HasStream(c) /\ stream'[c] = stream[c]) =>
              /\ payload'[c] = payload[c]
              /\ Take(StreamOf(c).up', Size(StreamOf(c).up)) = StreamOf(c).up
              /\ StreamOf(c).upFin => StreamOf(c).up' = StreamOf(c).up
        /\ (pc[c] # "Done" /\ pc'[c] = "Done") =>
              /\ StreamOf(c).upFin
              /\ StreamOf(c).up = EncodeRequest(C17_Request(c))
        /\ (Returns(c) /\ pc'[c] = "Failed") =>
              result'[c].error \in ErrorsOf(Last(log'[c]))

\* C17: what a call writes to its stream is the encoding of one Request and
\* nothing else: Request::Announce of the caller's Announce for announce,
\* Request::Query of the caller's Query for query, the value unchanged; no
\* call fails on the value it was given, and an Announce with an empty content
\* set is written like any other
C17_WritesOneRequest == []C17_State /\ [][C17_Step]_vars

\* an announce with an empty content set was written whole and half-closed
C17_Witness ==
    /\ call[1].op = "announce"
    /\ call[1].request.content = {}
    /\ HasStream(1) /\ StreamOf(1).upFin
    /\ StreamOf(1).up = EncodeRequest(Variant("Announce", call[1].request))
    /\ Size(StreamOf(1).up) = 35

\* C18: in every reachable state the response bytes a call holds are at most
\* 16384, whatever the tracker has sent and in whatever chunks
C18_BufferBounded ==
    \A c \in CallIds :
        /\ Size(buffer[c]) <= 16384
        /\ HasStream(c) => buffer[c] = Take(Sent(c), Size(buffer[c]))

\* the tracker has sent 16385 bytes in two chunks; the call holds the first
\* 16384 of them and the last byte waits to be read
C18_Witness ==
    /\ pc[1] = "Reading"
    /\ Size(Sent(1)) = 16385
    /\ Size(buffer[1]) = 16384
    /\ Len(StreamOf(1).down) = 1

C19_Step ==
    \A c \in CallIds :
        ( /\ call[c].op = "query"
          /\ pc[c] = "Reading" /\ Returns(c)
          /\ Last(log'[c]) = "from_bytes"
          /\ DecodeResponse(buffer[c]).ok ) =>
            /\ pc'[c] = "Done"
            /\ result'[c] = Success(DecodeResponse(buffer[c]).val.body)

\* C19: query returns every QueryResponse that the bytes of the tracker decode
\* to as success, whether or not its content is the content of the Query sent
C19_ResponseNotCompared == [][C19_Step]_vars

\* a query for content A has returned, as success, a response about content B
C19_Witness ==
    /\ pc[1] = "Done"
    /\ call[1].op = "query"
    /\ call[1].request.content = ContentA
    /\ result[1].status = "ok"
    /\ result[1].value.content = ContentB
    /\ result[1].value.content # call[1].request.content

====
